---- MODULE Spec2Model ----
(***************************************************************************)
(* Authentication and session lifecycle of the Hytale dedicated server     *)
(* tooling: the token store, the OAuth2 device-code client, the profile    *)
(* selector, the game-session manager and the commands of the auth CLI.    *)
(*                                                                         *)
(* An optional value (a missing JSON field, a null return, an absent file) *)
(* is a sequence of length 0 or 1: None is <<>> and Some(v) is <<v>>.      *)
(* Instants are epoch seconds unless a name ends in Ms.                    *)
(***************************************************************************)
EXTENDS Integers, Sequences, FiniteSets, TLC

VARIABLES
    nowMs,          \* Date.now(): the wall clock, in milliseconds
    autoSelect,     \* Config.autoSelectProfile
    oauthFile,      \* oauth_tokens.json
    sessionFile,    \* session_tokens.json
    profileFile,    \* profiles.json
    selectedFile,   \* selected_profile.json
    pc,             \* "idle", or "polling" inside pollForToken's loop
    device,         \* the DeviceCodeState handed to pollForToken
    elapsed,        \* pollForToken's local `elapsed`
    interval,       \* pollForToken's local `interval`
    slowDowns,      \* slow_down responses seen by the running pollForToken
    polls,          \* token requests sent by the running pollForToken
    logins,         \* login commands started so far
    ticks,          \* clock advances so far
    tokenDir,       \* whether TOKEN_DIR exists
    disk,           \* the text of each of the four files, as the file system holds it
    proc,           \* each process's position in the save it is running
    lastWriter,     \* for each file, the process whose write reached it last
    saves,          \* saves started so far
    dirMode,        \* the permission bits of TOKEN_DIR, 0 while it does not exist
    fileMode,       \* the permission bits of each file, 0 while it does not exist
    refr,           \* each process's position in the refresh command it is running
    issued,         \* refresh tokens the rotating server has issued so far
    raced,          \* whether a refresh has started while another was under way
    sessionOwner,   \* the profile the session server made the stored session for
    modFiles,       \* the names of the files in the mods directory
    manifest,       \* the mods the manifest file lists, None while there is no file
    outLen,         \* the length of ServerProcess.outputBuffer
    outLast,        \* the number of lines pushed to outputBuffer so far
    cmd,            \* the position and the locals of the running sendCommand
    chunks          \* chunks read from the server's output so far

\* the state of the commands, and the state of the store seen file by file
cmdVars == <<nowMs, autoSelect, oauthFile, sessionFile, profileFile, selectedFile,
             pc, device, elapsed, interval, slowDowns, polls, logins, ticks>>
storeVars == <<tokenDir, disk, proc, lastWriter, saves, dirMode, fileMode>>
rotVars == <<refr, issued, raced>>
modVars == <<modFiles, manifest>>
srvVars == <<outLen, outLast, cmd, chunks>>

vars == <<cmdVars, storeVars, rotVars, sessionOwner, modVars, srvVars>>

-----------------------------------------------------------------------------
(* Bounds of the model *)

MaxLogins == 1
MaxTicks == 1
MaxPolls == 5

(* The clock advances between commands by one of these steps. *)
TickStepsMs == {3400000}

-----------------------------------------------------------------------------
(* JavaScript values *)

None == <<>>
Some(v) == <<v>>

\* a string field used as a condition: undefined and "" are falsy
Truthy(o) == o # None /\ o[1] # ""

\* o ?? d
Nullish(o, d) == IF o = None THEN d ELSE o[1]

-----------------------------------------------------------------------------
(* Program constants *)

REFRESH_BUFFER == 300
SESSION_REFRESH_BUFFER == 300
DefaultExpiresIn == 900
DefaultInterval == 5
SlowDownStep == 5
DefaultTokenLifetime == 3600
DefaultSessionLifetime == 3600

-----------------------------------------------------------------------------
(* The world a command runs in: the clock, the configuration, the four     *)
(* files, the calls made so far, the error thrown (if any) and the value   *)
(* returned by the call that ran last.                                     *)

World ==
    [nowMs |-> nowMs, autoSelect |-> autoSelect,
     oauth |-> oauthFile, session |-> sessionFile,
     profiles |-> profileFile, selected |-> selectedFile,
     trace |-> <<>>, err |-> "", ret |-> None]

\* Math.floor(Date.now() / 1000)
NowSec(w) == w.nowMs \div 1000

\* a call: the operation, the OAuth access token it sent ("" when it sends
\* none), how it ended, and whether that token was due for refresh when sent
Event(op, token, res, due) == [op |-> op, token |-> token, res |-> res, due |-> due]

Log(w, ev) == [w EXCEPT !.trace = Append(@, ev)]
Throw(w, msg) == [w EXCEPT !.err = msg, !.ret = None]
Return(w, v) == [w EXCEPT !.ret = v]

-----------------------------------------------------------------------------
(* TokenStore *)

saveOAuthTokens(w, tokens) ==
    [w EXCEPT !.oauth = Some([access_token |-> tokens.accessToken,
                              refresh_token |-> tokens.refreshToken,
                              expires_at |-> tokens.expiresAt,
                              created_at |-> tokens.createdAt])]

loadOAuthTokens(w) ==
    IF w.oauth = None THEN None
    ELSE LET data == w.oauth[1] IN
         IF data.access_token = "" \/ data.refresh_token = "" THEN None
         ELSE Some([accessToken |-> data.access_token,
                    refreshToken |-> data.refresh_token,
                    expiresAt |-> data.expires_at,
                    createdAt |-> data.created_at])

saveProfiles(w, profiles) == [w EXCEPT !.profiles = Some(profiles)]
loadProfiles(w) == w.profiles

saveSelectedProfile(w, profile) == [w EXCEPT !.selected = Some(profile)]
loadSelectedProfile(w) == w.selected

\* saveSessionTokens that also removes the selected profile
saveSessionTokensClearing(w, tokens) ==
    [w EXCEPT !.session = Some(tokens), !.selected = None]

saveSessionTokens(w, tokens) == [w EXCEPT !.session = Some(tokens)]
loadSessionTokens(w) == w.session

-----------------------------------------------------------------------------
(* OAuthClient *)

\* needsRefresh(expiresAt), by the clock of w
needsRefresh(w, expiresAt) == NowSec(w) >= expiresAt - REFRESH_BUFFER

\* whether accessToken belongs to a stored credential that is due for refresh
TokenDue(w, accessToken) ==
    /\ w.oauth # None
    /\ w.oauth[1].access_token = accessToken
    /\ needsRefresh(w, w.oauth[1].expires_at)

\* createTokens with data.expires_in || 3600 in place of ??
createTokensFalsy(w, data) ==
    [accessToken |-> data.access_token[1],
     refreshToken |-> data.refresh_token[1],
     expiresAt |-> NowSec(w) + (IF data.expires_in = None \/ data.expires_in[1] = 0
                                THEN DefaultTokenLifetime ELSE data.expires_in[1]),
     createdAt |-> NowSec(w)]

createTokens(w, data) ==
    [accessToken |-> data.access_token[1],
     refreshToken |-> data.refresh_token[1],
     expiresAt |-> NowSec(w) + Nullish(data.expires_in, DefaultTokenLifetime),
     createdAt |-> NowSec(w)]

\* the refresh token sent, whatever the answer carries
keptRefreshTokenSent(data, refreshToken) == refreshToken

\* data.refresh_token ?? refreshToken
keptRefreshToken(data, refreshToken) == Nullish(data.refresh_token, refreshToken)

\* refreshToken without the test of data.error
refreshTokenUnchecked(w, refreshTok, data) ==
    IF ~Truthy(data.access_token)
    THEN Throw(Log(w, Event("refreshToken", "", "throw", FALSE)),
               "No access token in refresh response")
    ELSE LET tokens == createTokens(w, [data EXCEPT !.refresh_token =
                                          Some(keptRefreshToken(data, refreshTok))])
         IN  Return(saveOAuthTokens(
                        Log(w, Event("refreshToken", "", "ok", FALSE)),
                        tokens),
                    Some(tokens))

refreshToken(w, refreshTok, data) ==
    IF Truthy(data.error)
    THEN Throw(Log(w, Event("refreshToken", "", "throw", FALSE)),
               "Token refresh failed")
    ELSE IF ~Truthy(data.access_token)
    THEN Throw(Log(w, Event("refreshToken", "", "throw", FALSE)),
               "No access token in refresh response")
    ELSE LET tokens == createTokens(w, [data EXCEPT !.refresh_token =
                                          Some(keptRefreshToken(data, refreshTok))])
         IN  Return(saveOAuthTokens(
                        Log(w, Event("refreshToken", "", "ok", FALSE)),
                        tokens),
                    Some(tokens))

\* getProfiles that drops the selected profile with the old list
getProfilesClearing(w, accessToken, response) ==
    LET due == TokenDue(w, accessToken) IN
    IF ~response.ok
    THEN Throw(Log(w, Event("getProfiles", accessToken, "throw", due)),
               "Failed to get profiles")
    ELSE LET profiles == [owner |-> response.owner, profiles |-> response.profiles]
         IN  Return([saveProfiles(
                        Log(w, Event("getProfiles", accessToken, "ok", due)),
                        profiles) EXCEPT !.selected = None],
                    Some(profiles))

getProfiles(w, accessToken, response) ==
    LET due == TokenDue(w, accessToken) IN
    IF ~response.ok
    THEN Throw(Log(w, Event("getProfiles", accessToken, "throw", due)),
               "Failed to get profiles")
    ELSE LET profiles == [owner |-> response.owner, profiles |-> response.profiles]
         IN  Return(saveProfiles(
                        Log(w, Event("getProfiles", accessToken, "ok", due)),
                        profiles),
                    Some(profiles))

-----------------------------------------------------------------------------
(* ProfileManager *)

build(w, uuid, username) ==
    [uuid |-> uuid, username |-> username, selectedAt |-> NowSec(w)]

\* profiles.profiles.some((p) => p.uuid === uuid)
HasProfile(profiles, uuid) ==
    \E i \in 1..Len(profiles.profiles) : profiles.profiles[i].uuid = uuid

\* select without the rule for a set of exactly one profile
selectNoSingle(w, profiles) ==
    LET saved == loadSelectedProfile(w) IN
    IF saved # None /\ HasProfile(profiles, saved[1].uuid)
    THEN Return(Log(w, Event("select", "", "saved", FALSE)), saved)
    ELSE IF w.autoSelect /\ Len(profiles.profiles) > 0
    THEN LET profile == profiles.profiles[1]
             selected == build(w, profile.uuid, profile.username)
         IN  Return(saveSelectedProfile(
                        Log(w, Event("select", "", "auto", FALSE)),
                        selected),
                    Some(selected))
    ELSE Return(Log(w, Event("select", "", "null", FALSE)), None)

\* select that builds and saves the saved selection anew
selectRebuild(w, profiles) ==
    LET saved == loadSelectedProfile(w) IN
    IF saved # None /\ HasProfile(profiles, saved[1].uuid)
    THEN LET selected == build(w, saved[1].uuid, saved[1].username)
         IN  Return(saveSelectedProfile(
                        Log(w, Event("select", "", "saved", FALSE)),
                        selected),
                    Some(selected))
    ELSE IF Len(profiles.profiles) > 0 /\ (Len(profiles.profiles) = 1 \/ w.autoSelect)
    THEN LET profile == profiles.profiles[1]
             selected == build(w, profile.uuid, profile.username)
         IN  Return(saveSelectedProfile(
                        Log(w, Event("select", "", "auto", FALSE)),
                        selected),
                    Some(selected))
    ELSE Return(Log(w, Event("select", "", "null", FALSE)), None)

select(w, profiles) ==
    LET saved == loadSelectedProfile(w) IN
    IF saved # None /\ HasProfile(profiles, saved[1].uuid)
    THEN Return(Log(w, Event("select", "", "saved", FALSE)), saved)
    ELSE IF Len(profiles.profiles) = 1
    THEN LET profile == profiles.profiles[1]
             selected == build(w, profile.uuid, profile.username)
         IN  Return(saveSelectedProfile(
                        Log(w, Event("select", "", "single", FALSE)),
                        selected),
                    Some(selected))
    ELSE IF w.autoSelect
    THEN IF Len(profiles.profiles) = 0
         \* profiles.profiles[0] is undefined: reading its uuid throws
         THEN Throw(Log(w, Event("select", "", "throw", FALSE)), "TypeError")
         ELSE LET profile == profiles.profiles[1]
                  selected == build(w, profile.uuid, profile.username)
              IN  Return(saveSelectedProfile(
                             Log(w, Event("select", "", "auto", FALSE)),
                             selected),
                         Some(selected))
    ELSE Return(Log(w, Event("select", "", "null", FALSE)), None)

IsOrdinal(selector) == selector \in {"0", "1", "2", "3", "4"}
ParseInt(selector) ==
    CASE selector = "0" -> 0 [] selector = "1" -> 1 [] selector = "2" -> 2
      [] selector = "3" -> 3 [] selector = "4" -> 4

\* resolve with one error for every selector that selects nothing
resolveLenient(w, profiles, selector) ==
    IF IsOrdinal(selector)
    THEN LET index == ParseInt(selector) - 1 IN
         IF index < 0 \/ index >= Len(profiles.profiles)
         THEN Throw(w, "Profile not found")
         ELSE LET p == profiles.profiles[index + 1]
              IN  Return(w, Some(build(w, p.uuid, p.username)))
    ELSE IF ~HasProfile(profiles, selector)
    THEN Throw(w, "Profile not found")
    ELSE LET p == profiles.profiles[CHOOSE j \in 1..Len(profiles.profiles) :
                                        profiles.profiles[j].uuid = selector]
         IN  Return(w, Some(build(w, p.uuid, p.username)))

\* resolve with ordinals that count from 0
resolveZeroBased(w, profiles, selector) ==
    IF IsOrdinal(selector)
    THEN LET index == ParseInt(selector) IN
         IF index < 0 \/ index >= Len(profiles.profiles)
         THEN Throw(w, "Invalid profile number")
         ELSE LET p == profiles.profiles[index + 1]
              IN  Return(w, Some(build(w, p.uuid, p.username)))
    ELSE IF ~HasProfile(profiles, selector)
    THEN Throw(w, "Profile not found")
    ELSE LET p == profiles.profiles[CHOOSE j \in 1..Len(profiles.profiles) :
                                        profiles.profiles[j].uuid = selector]
         IN  Return(w, Some(build(w, p.uuid, p.username)))

resolve(w, profiles, selector) ==
    IF IsOrdinal(selector)
    THEN LET index == ParseInt(selector) - 1 IN
         IF index < 0 \/ index >= Len(profiles.profiles)
         THEN Throw(w, "Invalid profile number")
         ELSE LET p == profiles.profiles[index + 1]
              IN  Return(w, Some(build(w, p.uuid, p.username)))
    ELSE IF ~HasProfile(profiles, selector)
    THEN Throw(w, "Profile not found")
    ELSE LET i == CHOOSE j \in 1..Len(profiles.profiles) :
                      /\ profiles.profiles[j].uuid = selector
                      /\ \A k \in 1..(j - 1) : profiles.profiles[k].uuid # selector
             p == profiles.profiles[i]
         IN  Return(w, Some(build(w, p.uuid, p.username)))

setSelection(w, profiles, selector) ==
    LET r == resolve(w, profiles, selector) IN
    IF r.err # "" THEN r
    ELSE Return(saveSelectedProfile(r, r.ret[1]), r.ret)

-----------------------------------------------------------------------------
(* SessionManager *)

\* Date.parse on the expiry strings the model's server sends: milliseconds,
\* or None for NaN
DateParse(s) ==
    CASE s = "1970-01-01T01:03:20.500Z" -> Some(3800500)
      [] s = "1970-01-01T00:55:00.250Z" -> Some(3300250)
      [] OTHER -> None

\* parseExpiry without Math.floor(parsed / 1000): the parsed instant is kept
\* in milliseconds
parseExpiryMs(w, expiresAt) ==
    LET parsed == DateParse(expiresAt) IN
    IF parsed = None THEN NowSec(w) + DefaultSessionLifetime
    ELSE parsed[1]

parseExpiry(w, expiresAt) ==
    LET parsed == DateParse(expiresAt) IN
    IF parsed = None THEN NowSec(w) + DefaultSessionLifetime
    ELSE parsed[1] \div 1000

\* the record of a session that keeps the creation instant of the stored one
sessionTokensMerging(w, data) ==
    [sessionToken |-> data.sessionToken[1],
     identityToken |-> data.identityToken[1],
     expiresAt |-> data.expiresAt[1],
     expiresEpoch |-> parseExpiry(w, data.expiresAt[1]),
     createdAt |-> IF w.session = None THEN NowSec(w) ELSE w.session[1].createdAt]

sessionTokens(w, data) ==
    [sessionToken |-> data.sessionToken[1],
     identityToken |-> data.identityToken[1],
     expiresAt |-> data.expiresAt[1],
     expiresEpoch |-> parseExpiry(w, data.expiresAt[1]),
     createdAt |-> NowSec(w)]

\* create without the test of data.error
createUnchecked(w, profileUuid, accessToken, response) ==
    LET due == TokenDue(w, accessToken)
        data == response.body[1]
    IN
    IF response.body = None
    THEN Throw(Log(w, Event("create", accessToken, "throw", due)), "SyntaxError")
    ELSE IF ~(Truthy(data.sessionToken) /\ Truthy(data.identityToken)
              /\ Truthy(data.expiresAt))
    THEN Throw(Log(w, Event("create", accessToken, "throw", due)),
               "Invalid session response: missing tokens")
    ELSE LET tokens == sessionTokens(w, data)
         IN  Return(saveSessionTokens(
                        Log(w, Event("create", accessToken, "ok", due)),
                        tokens),
                    Some(tokens))

create(w, profileUuid, accessToken, response) ==
    LET due == TokenDue(w, accessToken)
        data == response.body[1]
    IN
    IF response.body = None
    THEN Throw(Log(w, Event("create", accessToken, "throw", due)), "SyntaxError")
    ELSE IF Truthy(data.error)
    THEN Throw(Log(w, Event("create", accessToken, "throw", due)),
               "Failed to create session")
    ELSE IF ~(Truthy(data.sessionToken) /\ Truthy(data.identityToken)
              /\ Truthy(data.expiresAt))
    THEN Throw(Log(w, Event("create", accessToken, "throw", due)),
               "Invalid session response: missing tokens")
    ELSE LET tokens == sessionTokens(w, data)
         IN  Return(saveSessionTokens(
                        Log(w, Event("create", accessToken, "ok", due)),
                        tokens),
                    Some(tokens))

\* SessionManager.refresh without the test of response.ok
refreshUnchecked(w, sessionToken, response) ==
    LET data == response.body[1] IN
    IF response.body = None
    THEN Return(Log(w, Event("refresh", "", "null", FALSE)), None)
    ELSE IF Truthy(data.sessionToken) /\ Truthy(data.identityToken)
            /\ Truthy(data.expiresAt)
    THEN LET tokens == sessionTokens(w, data)
         IN  Return(saveSessionTokens(
                        Log(w, Event("refresh", "", "ok", FALSE)),
                        tokens),
                    Some(tokens))
    ELSE Return(Log(w, Event("refresh", "", "null", FALSE)), None)

\* SessionManager.refresh
refresh(w, sessionToken, response) ==
    LET data == response.body[1] IN
    IF ~response.ok
    THEN Return(Log(w, Event("refresh", "", "null", FALSE)), None)
    ELSE IF response.body = None
    THEN Return(Log(w, Event("refresh", "", "null", FALSE)), None)
    ELSE IF Truthy(data.sessionToken) /\ Truthy(data.identityToken)
            /\ Truthy(data.expiresAt)
    THEN LET tokens == sessionTokens(w, data)
         IN  Return(saveSessionTokens(
                        Log(w, Event("refresh", "", "ok", FALSE)),
                        tokens),
                    Some(tokens))
    ELSE Return(Log(w, Event("refresh", "", "null", FALSE)), None)

\* isExpiring with > in place of >=
isExpiringLate(w, expiresEpoch) == NowSec(w) > expiresEpoch - SESSION_REFRESH_BUFFER

\* isExpiring(expiresEpoch), by the clock of w
isExpiring(w, expiresEpoch) == NowSec(w) >= expiresEpoch - SESSION_REFRESH_BUFFER

-----------------------------------------------------------------------------
(* What the servers may answer *)

TokenResponse(error, access, refreshTok, expiresIn) ==
    [error |-> error, access_token |-> access, refresh_token |-> refreshTok,
     expires_in |-> expiresIn]

TokenErrors ==
    {"authorization_pending", "slow_down", "expired_token", "access_denied",
     "server_error"}

\* answers to a refresh_token grant, and the tokens a device grant may issue
RefreshResponses ==
         {TokenResponse(Some("invalid_grant"), Some("a2"), Some("r2"), None),
          TokenResponse(None, Some("a1"), Some("r1"), None),
          TokenResponse(None, Some("a2"), Some("r2"), Some(3800)),
          TokenResponse(None, Some("a2"), None, Some(0)),
          TokenResponse(None, Some("a1"), Some(""), None),
          TokenResponse(None, None, Some("r2"), None)}

\* answers to a device_code grant
TokenResponses ==
    {TokenResponse(Some(e), None, None, None) : e \in TokenErrors}
    \cup {r \in RefreshResponses : r.error = None}

DeviceCodeResponse(deviceCode, userCode, uri, expiresIn, ival) ==
    [device_code |-> deviceCode, user_code |-> userCode,
     verification_uri |-> uri, expires_in |-> expiresIn, interval |-> ival]

DeviceCodeResponses ==
    {DeviceCodeResponse(Some("dc"), Some("uc"), Some("uri"), Some(25), None),
     DeviceCodeResponse(Some("dc"), Some("uc"), Some("uri"), None, Some(450)),
     DeviceCodeResponse(Some("dc"), Some("uc"), Some("uri"), Some(0), None),
     DeviceCodeResponse(Some("dc"), Some("uc"), Some("uri"), Some(20), Some(0)),
     DeviceCodeResponse(None, Some("uc"), Some("uri"), None, None),
     DeviceCodeResponse(Some("dc"), Some(""), Some("uri"), None, None),
     DeviceCodeResponse(Some("dc"), Some("uc"), None, None, None)}

\* a grant polled without delay, and a malformed answer
QuickDeviceCodeResponses ==
    {DeviceCodeResponse(Some("dc"), Some("uc"), Some("uri"), Some(1), Some(0)),
     DeviceCodeResponse(None, Some("uc"), Some("uri"), None, None)}

Steve == [uuid |-> "u1", username |-> "Steve"]
Alex == [uuid |-> "u2", username |-> "Alex"]
Kweebec == [uuid |-> "u3", username |-> "Kweebec"]

ProfileResponses ==
    {[ok |-> FALSE, owner |-> "", profiles |-> <<>>]}
    \cup {[ok |-> TRUE, owner |-> "o1", profiles |-> l] :
            l \in {<<>>, <<Steve>>, <<Steve, Alex>>, <<Alex, Kweebec>>}}

Selectors == {"0", "1", "2", "3", "u1", "u3", "u9"}

SessionBody(sessionTok, identityTok, expiresAt, error) ==
    [sessionToken |-> sessionTok, identityToken |-> identityTok,
     expiresAt |-> expiresAt, error |-> error]

SessionResponses ==
    {[ok |-> TRUE, body |-> Some(b)] :
        b \in {SessionBody(Some("s1"), Some("i1"), Some("1970-01-01T01:03:20.500Z"), None),
               SessionBody(Some("s2"), Some("i2"), Some("in one hour"), None),
               SessionBody(None, Some("i1"), Some("in one hour"), None),
               SessionBody(Some("s1"), Some(""), Some("in one hour"), None),
               SessionBody(Some("s1"), Some("i1"), None, None)}}
    \cup {[ok |-> TRUE, body |-> None],
          [ok |-> FALSE,
           body |-> Some(SessionBody(Some("s2"), Some("i2"), Some("in one hour"), None))],
          [ok |-> FALSE,
           body |-> Some(SessionBody(None, None, None, Some("invalid_session")))]}

-----------------------------------------------------------------------------
(* The state machine *)

NoDevice == [deviceCode |-> "", expiresIn |-> 0, interval |-> 0]

\* the four files of the store, and the processes that may save to them
Kinds == {"oauth", "profiles", "selected", "session"}
Procs == {1, 2}

\* a process that is in no save
NoSave == [pc |-> "idle", kind |-> "", value |-> None, prev |-> None]

\* no sendCommand is running
NoCommand ==
    [pc |-> "idle", linesBefore |-> 0, written |-> 0, until |-> 0, ret |-> None]

\* a process that is in no refresh
NoRefresh == [pc |-> "idle", presented |-> "", tokens |-> None]

\* no token directory, no file, no save and no refresh under way
StoreIdle ==
    /\ tokenDir = FALSE
    /\ disk = [k \in Kinds |-> None]
    /\ proc = [p \in Procs |-> NoSave]
    /\ lastWriter = [k \in Kinds |-> 0]
    /\ saves = 0
    /\ dirMode = 0
    /\ fileMode = [k \in Kinds |-> 0]
    /\ refr = [p \in Procs |-> NoRefresh]
    /\ issued = 0
    /\ raced = FALSE
    /\ sessionOwner = ""
    /\ modFiles = {}
    /\ manifest = None
    /\ outLen = 0
    /\ outLast = 0
    /\ cmd = NoCommand
    /\ chunks = 0

Init ==
    /\ nowMs = 500
    /\ autoSelect \in BOOLEAN
    /\ oauthFile = None
    /\ sessionFile = None
    /\ profileFile = None
    /\ selectedFile = None
    /\ pc = "idle"
    /\ device = NoDevice
    /\ elapsed = 0
    /\ interval = 0
    /\ slowDowns = 0
    /\ polls = 0
    /\ logins = 0
    /\ ticks = 0
    /\ StoreIdle

\* a command that ran in world w ends: its writes reach the files
Finish(w) ==
    /\ oauthFile' = w.oauth
    /\ sessionFile' = w.session
    /\ profileFile' = w.profiles
    /\ selectedFile' = w.selected

PollVars == <<pc, device, elapsed, interval, slowDowns, polls>>

\* time passes between commands
Tick ==
    /\ pc = "idle"
    /\ ticks < MaxTicks
    /\ \E d \in TickStepsMs : nowMs' = nowMs + d
    /\ ticks' = ticks + 1
    /\ UNCHANGED <<autoSelect, oauthFile, sessionFile, profileFile, selectedFile,
                   PollVars, logins, storeVars, rotVars, sessionOwner, modVars, srvVars>>

\* OAuthClient.requestDeviceCode, called by AuthCli.login
requestDeviceCode(w, data) ==
    IF ~(Truthy(data.device_code) /\ Truthy(data.user_code)
         /\ Truthy(data.verification_uri))
    THEN Throw(Log(w, Event("requestDeviceCode", "", "throw", FALSE)),
               "Invalid device code response")
    ELSE Return(Log(w, Event("requestDeviceCode", "", "ok", FALSE)),
                Some([deviceCode |-> data.device_code[1],
                      expiresIn |-> Nullish(data.expires_in, DefaultExpiresIn),
                      interval |-> Nullish(data.interval, DefaultInterval)]))

\* AuthCli.login up to the first test of pollForToken's loop
LoginStart(answers) ==
    /\ pc = "idle"
    /\ logins < MaxLogins
    /\ logins' = logins + 1
    /\ \E data \in answers :
          LET w == requestDeviceCode(World, data) IN
          /\ Finish(w)
          /\ IF w.err # ""
             THEN UNCHANGED PollVars
             ELSE /\ pc' = "polling"
                  /\ device' = w.ret[1]
                  /\ elapsed' = 0
                  /\ interval' = w.ret[1].interval
                  /\ slowDowns' = 0
                  /\ polls' = 0
    /\ UNCHANGED <<nowMs, autoSelect, ticks, storeVars, rotVars, sessionOwner, modVars, srvVars>>

\* Bun.sleep(ival * 1000)
Slept(w, ival) == [w EXCEPT !.nowMs = @ + ival * 1000]

\* interval += 10
slowedIntervalTen(ival) == ival + 2 * SlowDownStep

\* interval += 5
slowedInterval(ival) == ival + SlowDownStep

\* one message for every error answer that ends the polling
pollErrorSame(error) == "Token error"

\* the message of the error thrown for an error answer that ends the polling
pollError(error) ==
    IF error = "expired_token" THEN "Device code expired"
    ELSE IF error = "access_denied" THEN "Authorization denied"
    ELSE "Token error"

\* the throw after pollForToken's loop
pollTimeout(w) == Throw(w, "Device code expired (timeout)")

\* the body of pollForToken's loop after the sleep: the token request and
\* what its answer leads to
pollRequest(w, state, ival, data) ==
    IF Truthy(data.error)
    THEN IF data.error[1] = "authorization_pending"
         THEN [next |-> "continue", interval |-> ival,
               w |-> Log(w, Event("token", "", "pending", FALSE))]
         ELSE IF data.error[1] = "slow_down"
         THEN [next |-> "continue", interval |-> slowedInterval(ival),
               w |-> Log(w, Event("token", "", "slow_down", FALSE))]
         ELSE [next |-> "throw", interval |-> ival,
               w |-> Throw(Log(w, Event("token", "", "throw", FALSE)),
                           pollError(data.error[1]))]
    ELSE IF Truthy(data.access_token) /\ Truthy(data.refresh_token)
    THEN LET tokens == createTokens(w, data)
         IN  [next |-> "return", interval |-> ival,
              w |-> Return(saveOAuthTokens(
                               Log(w, Event("token", "", "ok", FALSE)),
                               tokens),
                           Some(tokens))]
    ELSE [next |-> "continue", interval |-> ival,
          w |-> Log(w, Event("token", "", "ignored", FALSE))]

\* one round of pollForToken's loop: the test, the sleep and the request
PollStep ==
    /\ pc = "polling"
    /\ elapsed < device.expiresIn
    /\ nowMs' = nowMs + interval * 1000
    /\ elapsed' = elapsed + interval
    /\ polls' = IF polls < MaxPolls THEN polls + 1 ELSE polls
    /\ \E data \in TokenResponses :
          LET r == pollRequest(Slept(World, interval), device, interval, data)
          IN  /\ Finish(r.w)
              /\ interval' = r.interval
              /\ slowDowns' = IF data.error = Some("slow_down")
                              THEN slowDowns + 1 ELSE slowDowns
              /\ pc' = IF r.next = "continue" THEN "polling" ELSE "idle"
    /\ UNCHANGED <<autoSelect, device, logins, ticks, storeVars, rotVars, sessionOwner, modVars, srvVars>>

\* pollForToken's loop ends because the test fails
PollTimeout ==
    /\ pc = "polling"
    /\ ~(elapsed < device.expiresIn)
    /\ pc' = "idle"
    /\ Finish(pollTimeout(World))
    /\ UNCHANGED <<nowMs, autoSelect, device, elapsed, interval, slowDowns, polls,
                   logins, ticks, storeVars, rotVars, sessionOwner, modVars, srvVars>>

\* process.exit(1) after logger.error
Exit(w) == Throw(w, "exit 1")

\* Every world a call may end in, one for each answer of the server.
RefreshTokenOutcomes(w, refreshTok) ==
    {refreshToken(w, refreshTok, data) : data \in RefreshResponses}
SessionRefreshOutcomes(w, sessionToken) ==
    {refresh(w, sessionToken, response) : response \in SessionResponses}
GetProfilesOutcomes(w, accessToken) ==
    {getProfiles(w, accessToken, response) : response \in ProfileResponses}
CreateOutcomes(w, profileUuid, accessToken) ==
    {create(w, profileUuid, accessToken, response) : response \in SessionResponses}

\* the fallback without the call of SessionManager.create
RefreshFallbackNoCreate(w2, refreshedOAuth) ==
    UNION {
        IF w3.err # "" THEN {w3}
        ELSE {select(w3, w3.ret[1])}
        : w3 \in GetProfilesOutcomes(w2, refreshedOAuth.accessToken)}

\* AuthCli.refresh from the fallback on: w2 is the world in which the session
\* refresh returned null
RefreshFallback(w2, refreshedOAuth) ==
    UNION {
        IF w3.err # "" THEN {w3}
        ELSE LET w4 == select(w3, w3.ret[1]) IN
             IF w4.err # "" \/ w4.ret = None THEN {w4}
             ELSE CreateOutcomes(w4, w4.ret[1].uuid, refreshedOAuth.accessToken)
        : w3 \in GetProfilesOutcomes(w2, refreshedOAuth.accessToken)}

\* AuthCli.refresh without the test for a stored OAuth credential: the
\* session refresh goes ahead when there is none
RunRefreshNoCheck(w) ==
    LET oauth == loadOAuthTokens(w)
        stored == loadSessionTokens(w)
    IN
    IF oauth = None
    THEN IF stored = None THEN {w}
         ELSE SessionRefreshOutcomes(w, stored[1].sessionToken)
    ELSE UNION {
        IF w1.err # "" THEN {w1}
        ELSE LET refreshedOAuth == w1.ret[1]
                 session == loadSessionTokens(w1)
             IN
             IF session = None THEN {w1}
             ELSE UNION {
                 IF w2.ret # None THEN {w2}
                 ELSE RefreshFallback(w2, refreshedOAuth)
                 : w2 \in SessionRefreshOutcomes(w1, session[1].sessionToken)}
        : w1 \in RefreshTokenOutcomes(w, oauth[1].refreshToken)}

\* AuthCli.refresh with the OAuth refresh in a try block: after a failure the
\* command goes on with the stored credential
RunRefreshCatching(w) ==
    LET oauth == loadOAuthTokens(w) IN
    IF oauth = None THEN {Exit(w)}
    ELSE UNION {
        LET refreshedOAuth == IF w1.err # "" THEN oauth[1] ELSE w1.ret[1]
            w1c == [w1 EXCEPT !.err = ""]
            session == loadSessionTokens(w1c)
        IN
        IF session = None THEN {w1c}
        ELSE UNION {
            IF w2.ret # None THEN {w2}
            ELSE RefreshFallback(w2, refreshedOAuth)
            : w2 \in SessionRefreshOutcomes(w1c, session[1].sessionToken)}
        : w1 \in RefreshTokenOutcomes(w, oauth[1].refreshToken)}

\* AuthCli.refresh: every world the command may end in
RunRefresh(w) ==
    LET oauth == loadOAuthTokens(w) IN
    IF oauth = None THEN {Exit(w)}
    ELSE UNION {
        IF w1.err # "" THEN {w1}
        ELSE LET refreshedOAuth == w1.ret[1]
                 session == loadSessionTokens(w1)
             IN
             IF session = None THEN {w1}
             ELSE UNION {
                 IF w2.ret # None THEN {w2}
                 ELSE RefreshFallback(w2, refreshedOAuth)
                 : w2 \in SessionRefreshOutcomes(w1, session[1].sessionToken)}
        : w1 \in RefreshTokenOutcomes(w, oauth[1].refreshToken)}

CmdRefresh ==
    /\ pc = "idle"
    /\ \E w \in RunRefresh(World) : Finish(w)
    /\ UNCHANGED <<nowMs, autoSelect, PollVars, logins, ticks, storeVars, rotVars, sessionOwner, modVars, srvVars>>

\* AuthCli.session: every world the command may end in
RunSession(w) ==
    LET oauth == loadOAuthTokens(w) IN
    IF oauth = None THEN {Exit(w)}
    ELSE UNION {
        IF w1.err # "" THEN {w1}
        ELSE LET w2 == select(w1, w1.ret[1]) IN
             IF w2.err # "" \/ w2.ret = None THEN {w2}
             ELSE CreateOutcomes(w2, w2.ret[1].uuid, oauth[1].accessToken)
        : w1 \in GetProfilesOutcomes(w, oauth[1].accessToken)}

CmdSession ==
    /\ pc = "idle"
    /\ \E w \in RunSession(World) : Finish(w)
    /\ UNCHANGED <<nowMs, autoSelect, PollVars, logins, ticks, storeVars, rotVars, sessionOwner, modVars, srvVars>>

\* AuthCli.profile with "list", the default sub-command
RunProfileList(w) ==
    LET profiles == loadProfiles(w)
        oauth == loadOAuthTokens(w)
    IN
    IF profiles # None THEN {w}
    ELSE IF oauth = None THEN {Exit(w)}
    ELSE GetProfilesOutcomes(w, oauth[1].accessToken)

CmdProfileList ==
    /\ pc = "idle"
    /\ \E w \in RunProfileList(World) : Finish(w)
    /\ UNCHANGED <<nowMs, autoSelect, PollVars, logins, ticks, storeVars, rotVars, sessionOwner, modVars, srvVars>>

\* AuthCli.profile with "select <selector>"
RunProfileSelect(w) ==
    LET profiles == loadProfiles(w) IN
    IF profiles = None THEN {Exit(w)}
    ELSE {setSelection(w, profiles[1], selector) : selector \in Selectors}

CmdProfileSelect ==
    /\ pc = "idle"
    /\ \E w \in RunProfileSelect(World) : Finish(w)
    /\ UNCHANGED <<nowMs, autoSelect, PollVars, logins, ticks, storeVars, rotVars, sessionOwner, modVars, srvVars>>

\* AuthCli.login against a server whose grants are polled without delay
Login == LoginStart(QuickDeviceCodeResponses)

\* AuthCli.login against a server that answers with any device-code response
LoginAny == LoginStart(DeviceCodeResponses)

Next ==
    \/ Tick
    \/ Login
    \/ PollStep
    \/ PollTimeout
    \/ CmdRefresh
    \/ CmdSession
    \/ CmdProfileList
    \/ CmdProfileSelect

Spec == Init /\ [][Next]_vars

\* the commands login and refresh alone, with every device-code response
NextLogin ==
    \/ Tick
    \/ LoginAny
    \/ PollStep
    \/ PollTimeout
    \/ CmdRefresh

SpecLogin == Init /\ [][NextLogin]_vars

-----------------------------------------------------------------------------
(* Logout, and the background refresh that runs beside the commands.       *)

\* TokenStore.clearAll: rm with force on each of the four files
clearAll(w) ==
    [w EXCEPT !.oauth = None, !.session = None, !.profiles = None,
              !.selected = None]

\* what becomes of the DELETE request: it reaches the server, which accepts
\* or rejects it, or it cannot be sent and fetch rejects
TerminateResponses ==
    {[sent |-> TRUE, ok |-> TRUE], [sent |-> TRUE, ok |-> FALSE],
     [sent |-> FALSE, ok |-> FALSE]}

\* SessionManager.terminate: the fetch is awaited outside any try block and
\* its response is not read
terminate(w, sessionToken, response) ==
    IF ~response.sent
    THEN Throw(Log(w, Event("terminate", "", "throw", FALSE)), "fetch failed")
    ELSE Return(Log(w, Event("terminate", "", "ok", FALSE)), None)

\* AuthService.terminateSession: the stored session, if there is one, is
\* terminated
terminateSession(w, response) ==
    LET session == loadSessionTokens(w) IN
    IF session = None THEN Return(w, None)
    ELSE terminate(w, session[1].sessionToken, response)

\* AuthCli.logout: every world the command may end in
RunLogout(w) ==
    {LET w1 == terminateSession(w, response) IN
     IF w1.err # "" THEN w1 ELSE clearAll(w1)
     : response \in TerminateResponses}

CmdLogout ==
    /\ pc = "idle"
    /\ \E w \in RunLogout(World) : Finish(w)
    /\ UNCHANGED <<nowMs, autoSelect, PollVars, logins, ticks, storeVars, rotVars, sessionOwner, modVars, srvVars>>

\* the background refresh catches and logs what a call throws
Caught(w) == [w EXCEPT !.err = "", !.ret = None]

\* one cycle of the background refresh in which the token endpoint answers
\* data: the OAuth refresh when it is due, then the session refresh when the
\* session is expiring, with the fallback to a new session
cycle(w, data) ==
    LET oauth == loadOAuthTokens(w) IN
    IF oauth = None THEN {w}
    ELSE LET w1 == IF needsRefresh(w, oauth[1].expiresAt)
                   THEN refreshToken(w, oauth[1].refreshToken, data)
                   ELSE Return(w, oauth)
         IN
         IF w1.err # "" THEN {Caught(w1)}
         ELSE LET current == w1.ret[1]
                  session == loadSessionTokens(w1)
              IN
              IF session = None THEN {w1}
              ELSE IF ~isExpiring(w1, session[1].expiresEpoch) THEN {w1}
              ELSE UNION {
                  IF w2.ret # None THEN {w2}
                  ELSE {Caught(w3) : w3 \in RefreshFallback(w2, current)}
                  : w2 \in SessionRefreshOutcomes(w1, session[1].sessionToken)}

\* every world a cycle may end in
RunCycle(w) == UNION {cycle(w, data) : data \in RefreshResponses}

\* a tick of the cadence: one cycle runs to its end
MonitorCycle ==
    /\ pc = "idle"
    /\ \E w \in RunCycle(World) : Finish(w)
    /\ UNCHANGED <<nowMs, autoSelect, PollVars, logins, ticks, storeVars, rotVars, sessionOwner, modVars, srvVars>>

\* the commands login, session and logout
NextLogout ==
    \/ Tick
    \/ Login
    \/ PollStep
    \/ PollTimeout
    \/ CmdSession
    \/ CmdLogout

SpecLogout == Init /\ [][NextLogout]_vars

\* the commands login and session, with the background refresh between them
NextMonitor ==
    \/ Tick
    \/ Login
    \/ PollStep
    \/ PollTimeout
    \/ CmdSession
    \/ MonitorCycle

SpecMonitor == Init /\ [][NextMonitor]_vars

-----------------------------------------------------------------------------
(* The profile operations alone: select, setSelection and getProfiles over  *)
(* every cached profile set and saved selection.                            *)

\* Steve's profile after a change of display name
Steven == [uuid |-> "u1", username |-> "Steven"]

\* the profile lists a server may return
ProfileLists ==
    {<<>>, <<Steve>>, <<Steven>>, <<Kweebec>>, <<Steve, Alex>>, <<Alex, Steve>>,
     <<Alex, Kweebec>>}

AnyProfileResponses ==
    {[ok |-> FALSE, owner |-> "", profiles |-> <<>>]}
    \cup {[ok |-> TRUE, owner |-> "o1", profiles |-> l] : l \in ProfileLists}

InitProfile ==
    /\ nowMs = 7500
    /\ autoSelect \in BOOLEAN
    /\ oauthFile = Some([access_token |-> "a1", refresh_token |-> "r1",
                         expires_at |-> 3600, created_at |-> 0])
    /\ sessionFile = None
    /\ profileFile \in {None} \cup
          {Some([owner |-> "o1", profiles |-> l]) : l \in ProfileLists}
    /\ selectedFile \in {None} \cup
          {Some([uuid |-> q.uuid, username |-> q.username, selectedAt |-> 0]) :
              q \in {Steve, Alex, Kweebec}}
    /\ pc = "idle"
    /\ device = NoDevice
    /\ elapsed = 0
    /\ interval = 0
    /\ slowDowns = 0
    /\ polls = 0
    /\ logins = 0
    /\ ticks = 0
    /\ StoreIdle

\* OAuthClient.getProfiles with the stored access token
FetchProfiles ==
    /\ pc = "idle"
    /\ loadOAuthTokens(World) # None
    /\ \E response \in AnyProfileResponses :
          Finish(getProfiles(World, loadOAuthTokens(World)[1].accessToken, response))
    /\ UNCHANGED <<nowMs, autoSelect, PollVars, logins, ticks, storeVars, rotVars, sessionOwner, modVars, srvVars>>

\* ProfileManager.select on the profile set fetched last
SelectProfile ==
    /\ pc = "idle"
    /\ profileFile # None
    /\ Finish(select(World, profileFile[1]))
    /\ UNCHANGED <<nowMs, autoSelect, PollVars, logins, ticks, storeVars, rotVars, sessionOwner, modVars, srvVars>>

NextProfile ==
    \/ FetchProfiles
    \/ SelectProfile
    \/ CmdProfileSelect

SpecProfile == InitProfile /\ [][NextProfile]_vars

-----------------------------------------------------------------------------
(* The store seen file by file.  A save is the steps of its code: ensureDir *)
(* (mkdir), writeFile, which opens the file with flag "w" (create or        *)
(* truncate) and then writes the text from the start of the file, and       *)
(* chmod.  A process can be stopped between any two steps, and two          *)
(* processes can run their saves at the same time.                          *)

MaxSaves == 2

\* JSON.stringify of a string and of a "name": value member
Quote(str) == "\"" \o str \o "\""
Member(name, text) == Quote(name) \o ":" \o text

\* the object saveOAuthTokens serializes
oauthData(tokens) ==
    [access_token |-> tokens.accessToken, refresh_token |-> tokens.refreshToken,
     expires_at |-> tokens.expiresAt, created_at |-> tokens.createdAt]

StringifyOAuth(data) ==
    "{" \o Member("access_token", Quote(data.access_token))
        \o "," \o Member("refresh_token", Quote(data.refresh_token))
        \o "," \o Member("expires_at", ToString(data.expires_at))
        \o "," \o Member("created_at", ToString(data.created_at)) \o "}"

StringifySession(tokens) ==
    "{" \o Member("sessionToken", Quote(tokens.sessionToken))
        \o "," \o Member("identityToken", Quote(tokens.identityToken))
        \o "," \o Member("expiresAt", Quote(tokens.expiresAt))
        \o "," \o Member("expiresEpoch", ToString(tokens.expiresEpoch))
        \o "," \o Member("createdAt", ToString(tokens.createdAt)) \o "}"

StringifySelected(profile) ==
    "{" \o Member("uuid", Quote(profile.uuid))
        \o "," \o Member("username", Quote(profile.username))
        \o "," \o Member("selectedAt", ToString(profile.selectedAt)) \o "}"

StringifyProfile(profile) ==
    "{" \o Member("uuid", Quote(profile.uuid))
        \o "," \o Member("username", Quote(profile.username)) \o "}"

RECURSIVE StringifyList(_)
StringifyList(list) ==
    IF list = <<>> THEN ""
    ELSE IF Len(list) = 1 THEN StringifyProfile(list[1])
    ELSE StringifyProfile(list[1]) \o "," \o StringifyList(Tail(list))

StringifyProfiles(profiles) ==
    "{" \o Member("owner", Quote(profiles.owner))
        \o "," \o Member("profiles", "[" \o StringifyList(profiles.profiles) \o "]")
        \o "}"

\* the values the program saves: the credentials refreshToken issues, the
\* sessions create makes, the profile sets getProfiles fetches and the
\* selections build makes
OAuthValues ==
    {w.ret[1] : w \in {x \in RefreshTokenOutcomes(World, "r1") : x.err = ""}}
SessionValues ==
    {w.ret[1] : w \in {x \in CreateOutcomes(World, "u1", "a1") : x.err = ""}}
ProfilesValues ==
    {[owner |-> r.owner, profiles |-> r.profiles] : r \in {x \in ProfileResponses : x.ok}}
SelectedValues == {build(World, q.uuid, q.username) : q \in {Steve, Alex}}

Values(kind) ==
    CASE kind = "oauth" -> OAuthValues
      [] kind = "session" -> SessionValues
      [] kind = "profiles" -> ProfilesValues
      [] kind = "selected" -> SelectedValues

\* the text a save of value writes to the file of its kind
Stringify(kind, value) ==
    CASE kind = "oauth" -> StringifyOAuth(oauthData(value))
      [] kind = "session" -> StringifySession(value)
      [] kind = "profiles" -> StringifyProfiles(value)
      [] kind = "selected" -> StringifySelected(value)

\* the objects whose text a file of a kind may hold
FileObjects(kind) ==
    IF kind = "oauth" THEN {oauthData(t) : t \in OAuthValues} ELSE Values(kind)

StringifyObject(kind, object) ==
    IF kind = "oauth" THEN StringifyOAuth(object) ELSE Stringify(kind, object)

\* JSON.parse: the object whose text raw is, None when raw is the text of no
\* object (a SyntaxError)
JSONParse(kind, raw) ==
    LET hits == {o \in FileObjects(kind) : StringifyObject(kind, o) = raw} IN
    IF hits = {} THEN None ELSE Some(CHOOSE o \in hits : TRUE)

\* loadOAuthTokens on the file with content file (None when it does not exist)
loadOAuthTokensFile(file) ==
    IF file = None THEN None
    ELSE LET parsed == JSONParse("oauth", file[1]) IN
         IF parsed = None THEN None
         ELSE IF parsed[1].access_token = "" \/ parsed[1].refresh_token = "" THEN None
         ELSE Some([accessToken |-> parsed[1].access_token,
                    refreshToken |-> parsed[1].refresh_token,
                    expiresAt |-> parsed[1].expires_at,
                    createdAt |-> parsed[1].created_at])

\* loadProfiles, loadSelectedProfile and loadSessionTokens
loadJSONFile(kind, file) ==
    IF file = None THEN None ELSE JSONParse(kind, file[1])

Load(kind, file) ==
    IF kind = "oauth" THEN loadOAuthTokensFile(file) ELSE loadJSONFile(kind, file)

\* a write of text from the start of a file that holds old
Overlay(text, old) ==
    text \o (IF Len(old) > Len(text) THEN SubSeq(old, Len(text) + 1, Len(old)) ELSE "")

\* a process calls saveOAuthTokens, saveProfiles, saveSelectedProfile or
\* saveSessionTokens
SaveCall(p) ==
    /\ proc[p].pc \in {"idle", "done"}
    /\ saves < MaxSaves
    /\ saves' = saves + 1
    /\ \E kind \in Kinds : \E value \in Values(kind) :
          proc' = [proc EXCEPT ![p] = [pc |-> "called", kind |-> kind,
                                       value |-> Some(value), prev |-> disk[kind]]]
    /\ UNCHANGED <<cmdVars, rotVars, sessionOwner, modVars, srvVars, tokenDir, disk, lastWriter, dirMode, fileMode>>

\* the mode of a directory that mkdir creates with mode 0o700, and the mode
\* chmod gives a credential file (0o600)
DIR_MODE == 448
FILE_MODE == 384

\* HYTALE_TOKEN_DIR names a directory that exists before the first save,
\* with the mode its maker gave it (0o755, 0o777 or 0o700)
ExistingDir ==
    /\ ~tokenDir
    /\ saves = 0
    /\ tokenDir' = TRUE
    /\ dirMode' \in {493, 511, 448}
    /\ UNCHANGED <<cmdVars, rotVars, sessionOwner, modVars, srvVars, disk, proc, lastWriter, saves, fileMode>>

\* ensureDir: mkdir(TOKEN_DIR, {recursive: true, mode: 0o700}), which leaves
\* a directory that exists as it is
EnsureDir(p) ==
    /\ proc[p].pc = "called"
    /\ tokenDir' = TRUE
    /\ dirMode' = IF tokenDir THEN dirMode ELSE DIR_MODE
    /\ proc' = [proc EXCEPT ![p].pc = "ensured"]
    /\ UNCHANGED <<cmdVars, rotVars, sessionOwner, modVars, srvVars, disk, lastWriter, saves, fileMode>>

\* writeFile opens the file: it is created, with mode 0o666 less the umask
\* (0o644 under the usual 0o022), or truncated with its mode kept
OpenFile(p) ==
    /\ proc[p].pc = "ensured"
    /\ disk' = [disk EXCEPT ![proc[p].kind] = Some("")]
    /\ fileMode' = [fileMode EXCEPT ![proc[p].kind] =
                       IF disk[proc[p].kind] = None THEN 420 ELSE @]
    /\ proc' = [proc EXCEPT ![p].pc = "opened"]
    /\ UNCHANGED <<cmdVars, rotVars, sessionOwner, modVars, srvVars, tokenDir, lastWriter, saves, dirMode>>

\* writeFile writes the text and closes the file
WriteFile(p) ==
    /\ proc[p].pc = "opened"
    /\ disk' = [disk EXCEPT ![proc[p].kind] =
                   Some(Overlay(Stringify(proc[p].kind, proc[p].value[1]), @[1]))]
    /\ lastWriter' = [lastWriter EXCEPT ![proc[p].kind] = p]
    /\ proc' = [proc EXCEPT ![p].pc = "written"]
    /\ UNCHANGED <<cmdVars, rotVars, sessionOwner, modVars, srvVars, tokenDir, saves, dirMode, fileMode>>

\* chmod(file, 0o600), after which the save returns
Chmod(p) ==
    /\ proc[p].pc = "written"
    /\ fileMode' = [fileMode EXCEPT ![proc[p].kind] = FILE_MODE]
    /\ proc' = [proc EXCEPT ![p].pc = "done"]
    /\ UNCHANGED <<cmdVars, rotVars, sessionOwner, modVars, srvVars, tokenDir, disk, lastWriter, saves, dirMode>>

\* the process is stopped in the middle of its save
Stop(p) ==
    /\ proc[p].pc \in {"called", "ensured", "opened", "written"}
    /\ proc' = [proc EXCEPT ![p].pc = "stopped"]
    /\ UNCHANGED <<cmdVars, rotVars, sessionOwner, modVars, srvVars, tokenDir, disk, lastWriter, saves, dirMode, fileMode>>

NextStore ==
    \/ ExistingDir
    \/ \E p \in Procs : SaveCall(p)
    \/ \E p \in Procs : EnsureDir(p)
    \/ \E p \in Procs : OpenFile(p)
    \/ \E p \in Procs : WriteFile(p)
    \/ \E p \in Procs : Chmod(p)
    \/ \E p \in Procs : Stop(p)

SpecStore == Init /\ [][NextStore]_vars

-----------------------------------------------------------------------------
(* The refresh command run by two processes against a server that rotates  *)
(* the refresh token: each refresh loads the stored credential, sends its   *)
(* refresh token, and saves the credential made from the answer.  The       *)
(* processes share the store and nothing else.                              *)

MaxIssued == 2

\* the n-th refresh token the server issues, and the answer that carries it
Rotated(n) == "t" \o ToString(n)
RotatedResponse(n) ==
    TokenResponse(None, Some("b" \o ToString(n)), Some(Rotated(n)), None)

\* the answer to a refresh token the server no longer accepts
RefusedResponse == TokenResponse(Some("invalid_grant"), None, None, None)

\* a refresh is between its load and the end of its save
InFlight(p) == refr[p].pc \in {"loaded", "saving"}

RefreshFrame ==
    UNCHANGED <<nowMs, autoSelect, sessionFile, profileFile, selectedFile,
                PollVars, logins, ticks, storeVars, sessionOwner, modVars, srvVars>>

\* AuthCli.refresh loads the OAuth credential; without one it exits
RefreshLoad(p) ==
    /\ pc = "idle"
    /\ refr[p].pc = "idle"
    /\ issued < MaxIssued
    /\ LET oauth == loadOAuthTokens(World) IN
       /\ oauth # None
       /\ refr' = [refr EXCEPT ![p] = [pc |-> "loaded",
                                       presented |-> oauth[1].refreshToken,
                                       tokens |-> None]]
    /\ raced' = (raced \/ \E q \in Procs \ {p} : InFlight(q))
    /\ UNCHANGED <<oauthFile, issued>>
    /\ RefreshFrame

\* refreshToken up to its save: the server accepts the refresh token it
\* issued last, and accepts or refuses an older one; the credential is made
\* from its answer
RefreshRequest(p) ==
    /\ refr[p].pc = "loaded"
    /\ \E accept \in (IF issued = 0 \/ refr[p].presented = Rotated(issued)
                      THEN {TRUE} ELSE BOOLEAN) :
          LET data == IF accept THEN RotatedResponse(issued + 1)
                      ELSE RefusedResponse
              w == refreshToken(World, refr[p].presented, data)
          IN  /\ issued' = IF accept THEN issued + 1 ELSE issued
              /\ refr' = [refr EXCEPT ![p] =
                            IF w.err # "" THEN NoRefresh
                            ELSE [@ EXCEPT !.pc = "saving", !.tokens = w.ret]]
    /\ UNCHANGED <<oauthFile, raced>>
    /\ RefreshFrame

\* the save of refreshToken, after which the command ends: no session is
\* stored
RefreshSave(p) ==
    /\ refr[p].pc = "saving"
    /\ oauthFile' = saveOAuthTokens(World, refr[p].tokens[1]).oauth
    /\ refr' = [refr EXCEPT ![p] = NoRefresh]
    /\ UNCHANGED <<issued, raced>>
    /\ RefreshFrame

\* a login has stored its credential
InitRotate ==
    /\ nowMs \in {500, 3400500}
    /\ autoSelect \in BOOLEAN
    /\ oauthFile \in
          {Some([access_token |-> "a1", refresh_token |-> "r1",
                 expires_at |-> 3600, created_at |-> 0]),
           Some([access_token |-> "a2", refresh_token |-> "r2",
                 expires_at |-> 3800, created_at |-> 0])}
    /\ sessionFile = None
    /\ profileFile = None
    /\ selectedFile = None
    /\ pc = "idle"
    /\ device = NoDevice
    /\ elapsed = 0
    /\ interval = 0
    /\ slowDowns = 0
    /\ polls = 0
    /\ logins = 1
    /\ ticks = 0
    /\ StoreIdle

\* refreshes by the two processes
NextRotate ==
    \/ \E p \in Procs : RefreshLoad(p)
    \/ \E p \in Procs : RefreshRequest(p)
    \/ \E p \in Procs : RefreshSave(p)

SpecRotate == InitRotate /\ [][NextRotate]_vars

-----------------------------------------------------------------------------
(* The session seen from the session server: the server makes each session *)
(* for the profile whose identifier create sends it, and the session record *)
(* of the store does not hold that identifier.                              *)

\* AuthCli.session, each world it may end in with the profile identifier it
\* sent to a session creation that succeeded ("" when there was none)
RunSessionFor(w) ==
    LET oauth == loadOAuthTokens(w) IN
    IF oauth = None THEN {[w |-> Exit(w), uuid |-> ""]}
    ELSE UNION {
        IF w1.err # "" THEN {[w |-> w1, uuid |-> ""]}
        ELSE LET w2 == select(w1, w1.ret[1]) IN
             IF w2.err # "" \/ w2.ret = None THEN {[w |-> w2, uuid |-> ""]}
             ELSE {[w |-> w3,
                    uuid |-> IF w3.err = "" THEN w2.ret[1].uuid ELSE ""]
                   : w3 \in CreateOutcomes(w2, w2.ret[1].uuid, oauth[1].accessToken)}
        : w1 \in GetProfilesOutcomes(w, oauth[1].accessToken)}

\* the session command, with the server's record of the profile of the
\* session it made
CmdSessionFor ==
    /\ pc = "idle"
    /\ \E r \in RunSessionFor(World) :
          /\ Finish(r.w)
          /\ sessionOwner' = IF r.uuid # "" THEN r.uuid ELSE sessionOwner
    /\ UNCHANGED <<nowMs, autoSelect, PollVars, logins, ticks, storeVars, rotVars,
                   modVars, srvVars>>

\* AuthCli.export: the variables it prints, or the exit without a credential
export(w) ==
    LET oauth == loadOAuthTokens(w)
        session == loadSessionTokens(w)
        selected == loadSelectedProfile(w)
    IN
    IF oauth = None THEN Exit(w)
    ELSE Return(w, Some(
            [HYTALE_SERVER_SESSION_TOKEN |->
                 IF session = None THEN "" ELSE session[1].sessionToken,
             HYTALE_SERVER_IDENTITY_TOKEN |->
                 IF session = None THEN "" ELSE session[1].identityToken,
             PROFILE_UUID |-> IF selected = None THEN "" ELSE selected[1].uuid]))

\* the commands login, session, profile list and profile select
NextExport ==
    \/ Login
    \/ PollStep
    \/ PollTimeout
    \/ CmdSessionFor
    \/ CmdProfileList
    \/ CmdProfileSelect

SpecExport == Init /\ [][NextExport]_vars

-----------------------------------------------------------------------------
(* CurseForgeManager: syncMods over the mods directory and its manifest.    *)

\* the files CurseForge holds for the two projects of the model
CurseForgeFile(id, fileName, fileDate) ==
    [id |-> id, fileName |-> fileName, fileDate |-> fileDate]
FileA1 == CurseForgeFile(11, "a-1.jar", 1)
FileA2 == CurseForgeFile(12, "a-2.jar", 2)
FileB1 == CurseForgeFile(21, "b-1.jar", 1)
FileB2 == CurseForgeFile(22, "b-2.jar", 1)
Catalogue == {FileA1, FileA2, FileB1, FileB2}

\* an entry of the configuration: fileId is None for the latest file
ModEntry(projectId, fileId) == [projectId |-> projectId, fileId |-> fileId]

\* the configurations syncMods is called with
ModConfigs ==
    {<<>>,
     <<ModEntry(1, None)>>,
     <<ModEntry(1, Some(11))>>,
     <<ModEntry(2, None)>>,
     <<ModEntry(1, None), ModEntry(2, None)>>}

\* what CurseForge answers while one mod is synced: to the request for the
\* mod ("ok" with its latest files, "notfound" for a 404, "error" for
\* another status), to the request for one file and to the download
LatestFiles(projectId) ==
    IF projectId = 1 THEN {<<>>, <<FileA1>>, <<FileA1, FileA2>>}
    ELSE {<<FileB1>>, <<FileB2, FileB1>>}

ModAnswers(projectId) ==
    {[info |-> i, latestFiles |-> <<>>, fileOk |-> TRUE, downloadOk |-> TRUE] :
        i \in {"notfound", "error"}}
    \cup {[info |-> "ok", latestFiles |-> l, fileOk |-> f, downloadOk |-> d] :
            l \in LatestFiles(projectId), f \in BOOLEAN, d \in BOOLEAN}

\* the answers for each entry of a configuration
AnswersFor(modEntries) ==
    {a \in [1..Len(modEntries) ->
               UNION {ModAnswers(modEntries[i].projectId) : i \in 1..Len(modEntries)}] :
        \A i \in 1..Len(modEntries) : a[i] \in ModAnswers(modEntries[i].projectId)}

\* loadManifest: no mods when there is no manifest file
loadManifest == IF manifest = None THEN <<>> ELSE manifest[1]

\* manifest.mods.find((m) => m.projectId === projectId)
FindMod(mods, projectId) ==
    LET hits == {i \in 1..Len(mods) : mods[i].projectId = projectId} IN
    IF hits = {} THEN None
    ELSE Some(mods[CHOOSE i \in hits : \A j \in hits : i <= j])

\* [...latestFiles].sort by fileDate, most recent first, and its first element
MostRecent(latestFiles) ==
    latestFiles[CHOOSE i \in 1..Len(latestFiles) :
                    \A j \in 1..Len(latestFiles) :
                        \/ latestFiles[j].fileDate < latestFiles[i].fileDate
                        \/ (latestFiles[j].fileDate = latestFiles[i].fileDate /\ i <= j)]

\* syncMod on the directory with the files given: the files afterwards, the
\* installed mod returned and the error thrown
syncMod(files, entry, mods, answer) ==
    IF answer.info = "notfound"
    THEN [files |-> files, ret |-> None, err |-> "Mod not found"]
    ELSE IF answer.info = "error"
    THEN [files |-> files, ret |-> None, err |-> "CurseForge API error"]
    ELSE IF entry.fileId # None /\ entry.fileId[1] # 0 /\ ~answer.fileOk
    THEN [files |-> files, ret |-> None, err |-> "Failed to fetch file info"]
    ELSE IF ~(entry.fileId # None /\ entry.fileId[1] # 0) /\ answer.latestFiles = <<>>
    THEN [files |-> files, ret |-> None, err |-> "No files available for mod"]
    ELSE LET targetFile ==
                 IF entry.fileId # None /\ entry.fileId[1] # 0
                 THEN CHOOSE f \in Catalogue : f.id = entry.fileId[1]
                 ELSE MostRecent(answer.latestFiles)
             existing == FindMod(mods, entry.projectId)
         IN
         IF existing # None /\ existing[1].fileId = targetFile.id
            /\ existing[1].fileName \in files
         THEN [files |-> files, ret |-> existing, err |-> ""]
         ELSE LET kept == IF existing # None THEN files \ {existing[1].fileName}
                          ELSE files
              IN
              IF ~answer.downloadOk
              THEN [files |-> kept, ret |-> None, err |-> "Download failed"]
              ELSE [files |-> kept \cup {targetFile.fileName},
                    ret |-> Some([projectId |-> entry.projectId,
                                  fileId |-> targetFile.id,
                                  fileName |-> targetFile.fileName,
                                  installedAt |-> nowMs]),
                    err |-> ""]

\* the loop of syncMods from entry i on: the files, the mods installed and
\* the projects whose failure was logged
RECURSIVE SyncLoop(_, _, _, _, _, _, _)
SyncLoop(files, modEntries, answers, mods, i, newMods, failed) ==
    IF i > Len(modEntries)
    THEN [files |-> files, newMods |-> newMods, failed |-> failed]
    ELSE LET r == syncMod(files, modEntries[i], mods, answers[i]) IN
         SyncLoop(r.files, modEntries, answers, mods, i + 1,
                  IF r.err = "" /\ r.ret # None THEN Append(newMods, r.ret[1])
                  ELSE newMods,
                  IF r.err # "" THEN failed \cup {modEntries[i].projectId}
                  ELSE failed)

\* cleanupOldMods: the files left once those of mods out of the
\* configuration are removed
cleanupOldMods(files, currentEntries, mods) ==
    LET currentProjectIds ==
            {currentEntries[i].projectId : i \in 1..Len(currentEntries)}
    IN  files \ {mods[i].fileName : i \in {j \in 1..Len(mods) :
                                             mods[j].projectId \notin currentProjectIds}}

\* syncMods: the files and the manifest it leaves, and the failures it logged
syncMods(modEntries, answers) ==
    IF Len(modEntries) = 0
    THEN [files |-> modFiles, manifest |-> manifest, failed |-> {}]
    ELSE LET mods == loadManifest
             r == SyncLoop(modFiles, modEntries, answers, mods, 1, <<>>, {})
         IN  [files |-> cleanupOldMods(r.files, modEntries, mods),
              manifest |-> Some(r.newMods),
              failed |-> r.failed]

SyncMods ==
    /\ \E modEntries \in ModConfigs : \E answers \in AnswersFor(modEntries) :
          LET r == syncMods(modEntries, answers) IN
          /\ modFiles' = r.files
          /\ manifest' = r.manifest
    /\ UNCHANGED <<cmdVars, storeVars, rotVars, sessionOwner, srvVars>>

\* a file of the mods directory is removed by hand
RemoveModFile ==
    /\ \E f \in modFiles : modFiles' = modFiles \ {f}
    /\ UNCHANGED <<cmdVars, storeVars, rotVars, sessionOwner, srvVars, manifest>>

NextMods ==
    \/ SyncMods
    \/ RemoveModFile

SpecMods == Init /\ [][NextMods]_vars

-----------------------------------------------------------------------------
(* ServerProcess: sendCommand beside the two readers of the server's        *)
(* output.  The server is running.  A line of output is known by its        *)
(* number in the order of arrival, so that outputBuffer, which receives the *)
(* lines in that order and loses them only from its front, is the last      *)
(* outLen of the outLast lines pushed so far.                               *)

MaxChunks == 4

\* outputBuffer is cut to its last 500 lines when it holds more than 1000
BUFFER_LIMIT == 1000
BUFFER_KEEP == 500

\* the numbers of lines that are not blank in a chunk of output
ChunkLines == {1, 2, 499, 600}

\* this.outputBuffer
outputBuffer == [i \in 1..outLen |-> outLast - outLen + i]

\* array.slice(start) for a start that is not negative
Slice(array, start) ==
    IF start >= Len(array) THEN <<>> ELSE SubSeq(array, start + 1, Len(array))

\* one round of streamOutput's loop on either stream: the lines of the chunk
\* are pushed, then the buffer is cut
StreamOutput ==
    /\ chunks < MaxChunks
    /\ chunks' = chunks + 1
    /\ \E n \in ChunkLines :
          /\ outLast' = outLast + n
          /\ outLen' = IF outLen + n > BUFFER_LIMIT THEN BUFFER_KEEP
                       ELSE outLen + n
    /\ UNCHANGED <<cmdVars, storeVars, rotVars, sessionOwner, modVars, cmd>>

\* sendCommand up to its sleep: the length of the buffer is noted and the
\* command is written to the server
SendWrite ==
    /\ cmd.pc \in {"idle", "returned"}
    /\ cmd' = [pc |-> "waiting", linesBefore |-> outLen, written |-> outLast,
               until |-> 0, ret |-> None]
    /\ UNCHANGED <<cmdVars, storeVars, rotVars, sessionOwner, modVars,
                   outLen, outLast, chunks>>

\* sendCommand after its sleep: it returns the buffer from the noted length
\* on (the lines it joins with newlines)
SendReturn ==
    /\ cmd.pc = "waiting"
    /\ cmd' = [cmd EXCEPT !.pc = "returned", !.until = outLast,
                          !.ret = Some(Slice(outputBuffer, cmd.linesBefore))]
    /\ UNCHANGED <<cmdVars, storeVars, rotVars, sessionOwner, modVars,
                   outLen, outLast, chunks>>

NextServer ==
    \/ StreamOutput
    \/ SendWrite
    \/ SendReturn

SpecServer == Init /\ [][NextServer]_vars

-----------------------------------------------------------------------------
(* Properties *)

\* the operations that send the OAuth access token to a server
AccessTokenOps == {"getProfiles", "create"}

\* every access token sent while due for refresh was sent after a call of
\* refreshToken in the same run
RefreshedBeforeUse(tr) ==
    \A i \in 1..Len(tr) :
        (tr[i].op \in AccessTokenOps /\ tr[i].due)
            => \E j \in 1..(i - 1) : tr[j].op = "refreshToken"

\* C1: on every path that sends the OAuth access token to a server (the
\* commands session, profile list and refresh with its fallback), the token is
\* not sent at or after expiresAt - 300 unless refreshToken was called first on
\* that path.
C1_NoStaleAccessToken ==
    pc = "idle" =>
        \A w \in RunSession(World) \cup RunProfileList(World) \cup RunRefresh(World) :
            RefreshedBeforeUse(w.trace)

\* the session refresh of a run returned null
RefreshReturnedNull(tr) ==
    \E i \in 1..Len(tr) : tr[i].op = "refresh" /\ tr[i].res = "null"

\* the servers answered every profile fetch and session creation of a run
\* successfully
ServerReachable(tr) ==
    \A i \in 1..Len(tr) : tr[i].op \in AccessTokenOps => tr[i].res = "ok"

\* a run created a session, and that session is the stored one when it ends
SessionCreated(w) ==
    /\ \E i \in 1..Len(w.trace) : w.trace[i].op = "create" /\ w.trace[i].res = "ok"
    /\ w.session # None
    /\ w.session = w.ret
    /\ w.session[1].createdAt = NowSec(w)

\* C2 as claimed: whenever the session refresh of a refresh pass returns null
\* and the server is reachable, a session credential created in this pass is
\* stored when the pass ends, whatever the stored selection, the profile set
\* and the auto-select setting are.
C2_FallbackAlwaysCreates ==
    pc = "idle" =>
        \A w \in RunRefresh(World) :
            (RefreshReturnedNull(w.trace) /\ ServerReachable(w.trace))
                => SessionCreated(w)

\* the selection resolves to a profile: the stored selection is in the set, or
\* the set has exactly one profile, or auto-select is on and the set is not empty
Selectable(saved, profiles, auto) ==
    \/ saved # None /\ HasProfile(profiles, saved[1].uuid)
    \/ Len(profiles.profiles) = 1
    \/ auto /\ Len(profiles.profiles) > 0

\* C2, amended: whenever the session refresh of a refresh pass returns null,
\* the pass fetches the profiles with the access token refreshToken has just
\* stored and, when the fetch succeeds, resolves the selection.  When the
\* selection resolves to a profile the pass asks for a new session with that
\* token and, if the server grants it, the session created in this pass is the
\* stored one when the pass ends.  When it does not resolve (select returns
\* null, or raises on an empty set with auto-select on) no session is asked
\* for and the stored session credential is the one from before the pass.
C2_FallbackCreatesWhenSelectable ==
    pc = "idle" =>
        \A w \in RunRefresh(World) :
            LET tr == w.trace IN
            RefreshReturnedNull(tr) =>
                /\ Len(tr) >= 3
                /\ tr[1].op = "refreshToken" /\ tr[1].res = "ok"
                /\ tr[2].op = "refresh"
                /\ tr[3].op = "getProfiles"
                /\ w.oauth # None
                /\ w.oauth[1].created_at = NowSec(w)
                /\ tr[3].token = w.oauth[1].access_token
                /\ tr[3].res # "ok" => (Len(tr) = 3 /\ w.session = sessionFile)
                /\ tr[3].res = "ok" =>
                      /\ Len(tr) >= 4
                      /\ tr[4].op = "select"
                      /\ IF Selectable(selectedFile, w.profiles[1], autoSelect)
                         THEN /\ Len(tr) = 5
                              /\ tr[5].op = "create"
                              /\ tr[5].token = w.oauth[1].access_token
                              /\ w.selected # None
                              /\ HasProfile(w.profiles[1], w.selected[1].uuid)
                              /\ IF tr[5].res = "ok" THEN SessionCreated(w)
                                 ELSE w.session = sessionFile
                         ELSE /\ Len(tr) = 4
                              /\ tr[4].res \in {"null", "throw"}
                              /\ w.session = sessionFile

\* a refresh pass whose session refresh returns null ends with a session of
\* its own making
C2_Witness ==
    /\ pc = "idle"
    /\ \E w \in RunRefresh(World) :
          /\ RefreshReturnedNull(w.trace)
          /\ SessionCreated(w)
          /\ w.session # sessionFile

\* C3: pollForToken sends no token request, and issues or stores no
\* credential, once the accumulated poll time has reached the grant's
\* expiresIn: the accumulated poll time of every request sent is below
\* expiresIn, for every interval, expiresIn and number of slow_down answers.
C3_NoRequestOnceExpired ==
    (device # NoDevice /\ polls > 0) => elapsed < device.expiresIn

\* the answers SessionManager.refresh takes for a failure: a status that is
\* not 2xx, a body that is not JSON, or a session token, identity token or
\* expiry that is missing
Rejected(response) ==
    \/ ~response.ok
    \/ response.body = None
    \/ ~Truthy(response.body[1].sessionToken)
    \/ ~Truthy(response.body[1].identityToken)
    \/ ~Truthy(response.body[1].expiresAt)

\* C4: SessionManager.refresh returns null and raises no error whenever the
\* server answers non-2xx, the body cannot be parsed, or one of session token,
\* identity token and expiry is missing; the stored session credential (and
\* every other file) is then what it was before the call.
C4_RefreshNullOnFailure ==
    (pc = "idle" /\ sessionFile # None) =>
        \A response \in SessionResponses :
            Rejected(response) =>
                LET w == refresh(World, sessionFile[1].sessionToken, response) IN
                /\ w.ret = None
                /\ w.err = ""
                /\ w.session = sessionFile
                /\ w.oauth = oauthFile
                /\ w.profiles = profileFile
                /\ w.selected = selectedFile

\* a refresh pass over a stored session whose session refresh is answered
\* with a failure of each kind and returns null
C4_Witness ==
    /\ pc = "idle"
    /\ sessionFile # None
    /\ loadOAuthTokens(World) # None
    /\ \E response \in SessionResponses : ~response.ok /\ response.body # None
          /\ Truthy(response.body[1].sessionToken)
    /\ \E w \in RunRefresh(World) :
          /\ RefreshReturnedNull(w.trace)
          /\ w.session = sessionFile
          /\ w.err # ""

\* C5: after a successful refreshToken(r) the stored and returned credential
\* carries the server's new refresh token when the answer has one and r when
\* the answer omits it, and across any sequence of refreshes the stored
\* refresh token is never lost or blanked: a stored credential always has a
\* refresh token and can be loaded.
C5_RefreshTokenKept ==
    /\ oauthFile # None =>
          /\ oauthFile[1].refresh_token # ""
          /\ loadOAuthTokens(World) # None
    /\ (pc = "idle" /\ loadOAuthTokens(World) # None) =>
          \A data \in RefreshResponses :
              LET r == loadOAuthTokens(World)[1].refreshToken
                  w == refreshToken(World, r, data)
              IN  w.err = "" =>
                    /\ w.oauth[1].refresh_token =
                          (IF data.refresh_token # None THEN data.refresh_token[1] ELSE r)
                    /\ w.ret[1].refreshToken = w.oauth[1].refresh_token
                    /\ w.oauth[1].refresh_token # ""

\* the answers refreshToken takes for a failure
RefreshRefused(data) == Truthy(data.error) \/ ~Truthy(data.access_token)

\* C6: refreshToken fails with a refresh failure when the answer carries an
\* error or has no access token, and the stored OAuth credential is then what
\* it was before the call.
C6_RefreshFailureKeepsCredential ==
    (pc = "idle" /\ loadOAuthTokens(World) # None) =>
        \A data \in RefreshResponses :
            RefreshRefused(data) =>
                LET w == refreshToken(World, loadOAuthTokens(World)[1].refreshToken, data)
                IN  /\ w.err = (IF Truthy(data.error) THEN "Token refresh failed"
                                ELSE "No access token in refresh response")
                    /\ w.ret = None
                    /\ w.oauth = oauthFile
                    /\ w.session = sessionFile

\* a refresh command over a stored credential that fails in refreshToken, for
\* an error answer that carries tokens and for an answer without access token
C6_Witness ==
    /\ pc = "idle"
    /\ loadOAuthTokens(World) # None
    /\ \E data \in RefreshResponses : Truthy(data.error) /\ Truthy(data.access_token)
    /\ \E w \in RunRefresh(World) :
          w.err = "Token refresh failed" /\ w.oauth = oauthFile /\ Len(w.trace) = 1
    /\ \E w \in RunRefresh(World) :
          w.err = "No access token in refresh response" /\ w.oauth = oauthFile

\* what one more round of pollForToken's loop does with the answer data
PollOutcome(data) == pollRequest(Slept(World, interval), device, interval, data)

\* C7: in pollForToken an authorization_pending answer leads to another poll
\* with the interval unchanged; expired_token and access_denied end the
\* polling at once, with two different errors; any other non-empty error that
\* is not slow_down ends it with a third, the protocol error; and no outcome
\* that fails, the timeout included, writes an OAuth credential.
C7_PollErrorHandling ==
    pc = "polling" =>
        /\ pollTimeout(World).err = "Device code expired (timeout)"
        /\ pollTimeout(World).oauth = oauthFile
        /\ elapsed < device.expiresIn =>
              \A data \in TokenResponses :
                  LET r == PollOutcome(data) IN
                  /\ data.error = Some("authorization_pending") =>
                        /\ r.next = "continue"
                        /\ r.interval = interval
                        /\ r.w.err = ""
                  /\ data.error = Some("expired_token") =>
                        r.next = "throw" /\ r.w.err = "Device code expired"
                  /\ data.error = Some("access_denied") =>
                        r.next = "throw" /\ r.w.err = "Authorization denied"
                  /\ (Truthy(data.error) /\ data.error[1] \notin
                          {"authorization_pending", "slow_down", "expired_token",
                           "access_denied"}) =>
                        r.next = "throw" /\ r.w.err = "Token error"
                  /\ r.next = "throw" => (r.w.oauth = oauthFile /\ r.w.ret = None)
                  /\ r.next = "continue" => r.w.oauth = oauthFile

\* a login that was answered authorization_pending or nothing usable at least
\* once and then ended on an error answer inside the validity window, with no
\* credential written
C7_Witness ==
    /\ pc = "idle"
    /\ device # NoDevice
    /\ polls >= 2
    /\ slowDowns = 0
    /\ interval = device.interval
    /\ elapsed < device.expiresIn
    /\ oauthFile = None

\* C8: the poll interval never decreases: a slow_down answer raises it by
\* exactly 5 seconds and no other answer changes it, so that after k slow_down
\* answers it is the grant's interval plus 5k.
C8_IntervalGrowsByFive ==
    /\ device # NoDevice => (interval = device.interval + 5 * slowDowns
                             /\ interval >= device.interval)
    /\ (pc = "polling" /\ elapsed < device.expiresIn) =>
          \A data \in TokenResponses :
              PollOutcome(data).interval =
                  (IF data.error = Some("slow_down") THEN interval + 5 ELSE interval)

\* a login that was answered slow_down twice
C8_Witness ==
    /\ device # NoDevice
    /\ slowDowns = 2
    /\ interval = device.interval + 10

\* the lifetime a token answer gives the credential
Lifetime(data) == IF data.expires_in = None THEN 3600 ELSE data.expires_in[1]

\* tokens, stored in w and returned, were made at the time of w with the
\* lifetime of data
Issued(w, data) ==
    /\ w.oauth # None
    /\ w.oauth[1].access_token = data.access_token[1]
    /\ w.oauth[1].created_at = w.nowMs \div 1000
    /\ w.oauth[1].expires_at = w.oauth[1].created_at + Lifetime(data)
    /\ w.ret # None
    /\ w.ret[1].expiresAt = w.oauth[1].expires_at
    /\ w.ret[1].createdAt = w.oauth[1].created_at

\* C9: every OAuth credential pollForToken or refreshToken issues is stored
\* with expiresAt = createdAt + the lifetime the server gave, 3600 when it
\* gave none, createdAt being the time of issue; so a login from no files that
\* is answered authorization_pending and then with a token pair without
\* lifetime stores expiresAt = createdAt + 3600.
C9_ExpiryIsCreationPlusLifetime ==
    /\ (pc = "polling" /\ elapsed < device.expiresIn) =>
          \A data \in TokenResponses :
              PollOutcome(data).next = "return" => Issued(PollOutcome(data).w, data)
    /\ (pc = "idle" /\ loadOAuthTokens(World) # None) =>
          \A data \in RefreshResponses :
              LET w == refreshToken(World, loadOAuthTokens(World)[1].refreshToken, data)
              IN  w.err = "" => Issued(w, data)
    /\ oauthFile # None =>
          \E data \in RefreshResponses :
              oauthFile[1].expires_at = oauthFile[1].created_at + Lifetime(data)

\* a login from no files, polled every 5 seconds, whose fourth answer is the
\* first to carry tokens, without lifetime
C9_Witness ==
    /\ pc = "idle"
    /\ polls = 4
    /\ slowDowns = 0
    /\ device.interval = 5
    /\ ticks = 0
    /\ oauthFile # None
    /\ oauthFile[1].access_token = "a1"
    /\ oauthFile[1].created_at = 20
    /\ oauthFile[1].expires_at = oauthFile[1].created_at + 3600
    /\ sessionFile = None /\ profileFile = None /\ selectedFile = None

\* expiry instants around the anticipation window, and the stored ones
ExpirySamples ==
    {NowSec(World) + d : d \in {-1, 0, 200, 299, 300, 301, 400}}
    \cup (IF oauthFile = None THEN {} ELSE {oauthFile[1].expires_at})
    \cup (IF sessionFile = None THEN {} ELSE {sessionFile[1].expiresEpoch})

\* C10: needsRefresh(e) and isExpiring(e) are both true exactly when
\* now >= e - 300, now being the clock in whole seconds, so they agree on
\* every expiry; an expiry 200 seconds ahead gives true and one 400 seconds
\* ahead gives false.
C10_SameAnticipationWindow ==
    /\ \A e \in ExpirySamples :
          /\ needsRefresh(World, e) = (nowMs >= (e - 300) * 1000)
          /\ isExpiring(World, e) = (nowMs >= (e - 300) * 1000)
          /\ needsRefresh(World, e) = isExpiring(World, e)
    /\ needsRefresh(World, NowSec(World) + 200)
    /\ isExpiring(World, NowSec(World) + 200)
    /\ ~needsRefresh(World, NowSec(World) + 400)
    /\ ~isExpiring(World, NowSec(World) + 400)

\* a stored session that expires 200 seconds from now and is expiring, beside
\* a stored OAuth credential that expires 400 seconds from now and is not due
C10_Witness ==
    /\ sessionFile # None
    /\ sessionFile[1].expiresEpoch = NowSec(World) + 200
    /\ isExpiring(World, sessionFile[1].expiresEpoch)
    /\ oauthFile # None
    /\ oauthFile[1].expires_at = NowSec(World) + 400
    /\ ~needsRefresh(World, oauthFile[1].expires_at)
    /\ nowMs % 1000 # 0

\* the selection build makes of the i-th profile of a set, now
Built(profiles, i) ==
    Some(build(World, profiles.profiles[i].uuid, profiles.profiles[i].username))

\* the saved selection can be reused with the profile set
Reusable(profiles) ==
    selectedFile # None /\ HasProfile(profiles, selectedFile[1].uuid)

\* C11: for every saved selection, profile set and auto-select flag, select
\* ends without error in the first rule that applies: (1) the saved selection,
\* as stored and without a write, when its identifier is in the set; else (2)
\* the only profile of a set of one; else (3) the first profile in the order
\* of the server when auto-select is on; else (4) null.  Rules 2 and 3 store
\* the selection they return.
C11_SelectPriorityOrder ==
    (pc = "idle" /\ profileFile # None) =>
        LET profiles == profileFile[1]
            w == select(World, profiles)
        IN  /\ w.err = ""
            /\ IF Reusable(profiles)
               THEN w.ret = selectedFile /\ w.selected = selectedFile
               ELSE IF Len(profiles.profiles) = 1
               THEN w.ret = Built(profiles, 1) /\ w.selected = w.ret
               ELSE IF autoSelect
               THEN Len(profiles.profiles) > 0 =>
                        (w.ret = Built(profiles, 1) /\ w.selected = w.ret)
               ELSE w.ret = None /\ w.selected = selectedFile

\* select prompts for a manual selection exactly when it returns null
Prompted(w) == \E i \in 1..Len(w.trace) : w.trace[i].op = "select" /\ w.trace[i].res = "null"

\* two calls of select in a row return the same profile, without a prompt and
\* with the stored selection as it was before them
SelectTwiceSame(profiles) ==
    LET w1 == select(World, profiles)
        w2 == select([w1 EXCEPT !.ret = None], profiles)
    IN  /\ w1.err = "" /\ w2.err = ""
        /\ w1.ret # None
        /\ w2.ret = w1.ret
        /\ ~Prompted(w2)
        /\ w2.selected = selectedFile

\* C12 as claimed: with an unchanged profile set and an existing saved
\* selection, select called twice in a row returns the same selected profile
\* both times, without prompting and without changing the stored selection.
C12_SelectIdempotent ==
    (pc = "idle" /\ profileFile # None /\ selectedFile # None) =>
        SelectTwiceSame(profileFile[1])

\* C12, amended: with an unchanged profile set and a saved selection whose
\* identifier is in that set, select called twice in a row returns the saved
\* selection both times, without prompting and without writing the stored
\* selection.
C12_SelectIdempotentWhenReusable ==
    (pc = "idle" /\ profileFile # None /\ Reusable(profileFile[1])) =>
        /\ SelectTwiceSame(profileFile[1])
        /\ select(World, profileFile[1]).ret = selectedFile

\* a selection made in this run is stored, its identifier is in the cached
\* set, and select returns it
C12_Witness ==
    /\ pc = "idle"
    /\ profileFile # None
    /\ Reusable(profileFile[1])
    /\ selectedFile[1].selectedAt = NowSec(World)
    /\ Len(profileFile[1].profiles) = 2
    /\ select(World, profileFile[1]).ret = selectedFile

\* C13 as claimed: with exactly one profile in the set, select returns a
\* selection with that profile's identifier and display name, whatever the
\* saved selection and the auto-select setting are.
C13_SingleProfileSelected ==
    (pc = "idle" /\ profileFile # None /\ Len(profileFile[1].profiles) = 1) =>
        LET w == select(World, profileFile[1]) IN
        /\ w.err = ""
        /\ w.ret # None
        /\ w.ret[1].uuid = profileFile[1].profiles[1].uuid
        /\ w.ret[1].username = profileFile[1].profiles[1].username

\* C13, amended: with exactly one profile in the set, select returns a
\* selection with that profile's identifier under every saved selection and
\* either auto-select setting, and the auto-select setting plays no part in
\* the result.  When the saved selection has that identifier it is returned
\* as stored, with the display name and selection time it was saved with, and
\* nothing is written; otherwise the selection is built from the profile, with
\* its display name and the current time, and stored.
C13_SingleProfileSelectedById ==
    (pc = "idle" /\ profileFile # None /\ Len(profileFile[1].profiles) = 1) =>
        LET profiles == profileFile[1]
            w == select(World, profiles)
        IN  /\ w.err = ""
            /\ w.ret # None
            /\ w.ret[1].uuid = profiles.profiles[1].uuid
            /\ w.selected = w.ret
            /\ IF Reusable(profiles) THEN w.ret = selectedFile
               ELSE w.ret = Built(profiles, 1)
            /\ select([World EXCEPT !.autoSelect = ~autoSelect], profiles).ret = w.ret

\* the only profile of the cached set is the stored selection, made in this run
\* while another profile was saved, with auto-select off
C13_Witness ==
    /\ pc = "idle"
    /\ ~autoSelect
    /\ profileFile # None
    /\ Len(profileFile[1].profiles) = 1
    /\ selectedFile = Built(profileFile[1], 1)
    /\ select(World, profileFile[1]).ret = selectedFile

\* C14: when the saved selection cannot be reused, the set does not hold
\* exactly one profile, and it does not hold several with auto-select on,
\* select returns null without an error and writes nothing; so it does for
\* several profiles with auto-select off and for an empty set with auto-select
\* on or off.
C14_SelectDefers ==
    (pc = "idle" /\ profileFile # None) =>
        LET profiles == profileFile[1]
            w == select(World, profiles)
        IN  (/\ ~Reusable(profiles)
             /\ Len(profiles.profiles) # 1
             /\ ~(Len(profiles.profiles) > 1 /\ autoSelect))
            => (/\ w.err = ""
                /\ w.ret = None
                /\ w.selected = selectedFile
                /\ w.profiles = profileFile)

\* the position a selector made of digits names, counted from 1
Ordinal(selector) ==
    CASE selector = "0" -> 0 [] selector = "1" -> 1 [] selector = "2" -> 2
      [] selector = "3" -> 3

Ordinals == {"0", "1", "2", "3"}

\* C15: setSelection with an ordinal outside 1..count ("0" and count + 1 among
\* them) fails with the invalid-index error, and with an identifier that no
\* profile of the set has fails with the not-found error; either way the stored
\* selected profile is unchanged.
C15_SetSelectionRejects ==
    (pc = "idle" /\ profileFile # None) =>
        LET profiles == profileFile[1]
            count == Len(profiles.profiles)
        IN  \A selector \in Selectors :
                LET w == setSelection(World, profiles, selector) IN
                /\ (selector \in Ordinals /\ Ordinal(selector) \notin 1..count) =>
                      /\ w.err = "Invalid profile number"
                      /\ w.ret = None
                      /\ w.selected = selectedFile
                /\ (selector \notin Ordinals /\ ~HasProfile(profiles, selector)) =>
                      /\ w.err = "Profile not found"
                      /\ w.ret = None
                      /\ w.selected = selectedFile

\* a selection made in this run is stored, and the cached set of two profiles
\* rejects the ordinals "0" and "3" and the identifier "u9"
C15_Witness ==
    /\ pc = "idle"
    /\ selectedFile # None
    /\ selectedFile[1].selectedAt = NowSec(World)
    /\ profileFile # None
    /\ Len(profileFile[1].profiles) = 2
    /\ {"0", "3", "u9"} \subseteq Selectors
    /\ ~HasProfile(profileFile[1], "u9")
    /\ \E w \in RunProfileSelect(World) :
          w.err = "Invalid profile number" /\ w.selected = selectedFile
    /\ \E w \in RunProfileSelect(World) :
          w.err = "Profile not found" /\ w.selected = selectedFile

\* C16: for every profile set, setSelection with an ordinal k in 1..count
\* selects the k-th profile of the list, and with the identifier of a profile
\* of the set selects that profile; the selection is stored in place of any
\* earlier one, so that a select that follows with the same set returns it.
C16_SetSelectionSelects ==
    (pc = "idle" /\ profileFile # None) =>
        LET profiles == profileFile[1]
            count == Len(profiles.profiles)
        IN  \A selector \in Selectors :
                LET w == setSelection(World, profiles, selector)
                    after == select([w EXCEPT !.ret = None], profiles)
                IN  /\ (selector \in Ordinals /\ Ordinal(selector) \in 1..count) =>
                          /\ w.err = ""
                          /\ w.ret = Built(profiles, Ordinal(selector))
                          /\ w.selected = w.ret
                          /\ after.ret = w.ret /\ after.selected = w.ret
                    /\ (selector \notin Ordinals /\ HasProfile(profiles, selector)) =>
                          /\ w.err = ""
                          /\ \E i \in 1..count :
                                /\ profiles.profiles[i].uuid = selector
                                /\ w.ret = Built(profiles, i)
                          /\ w.selected = w.ret
                          /\ after.ret = w.ret /\ after.selected = w.ret

\* the second profile of the cached set was selected in this run, by ordinal
\* or by identifier, in place of another selection
C16_Witness ==
    /\ pc = "idle"
    /\ profileFile # None
    /\ Len(profileFile[1].profiles) = 2
    /\ selectedFile = Built(profileFile[1], 2)
    /\ \E w \in RunProfileSelect(World) : w.err = "" /\ w.selected # selectedFile

\* C17: getProfiles, which overwrites the cached profile set, leaves the stored
\* selected profile as it was, and a select that follows returns that
\* selection whenever its identifier is in the new set.
C17_SelectionSurvivesRefresh ==
    (pc = "idle" /\ loadOAuthTokens(World) # None) =>
        \A response \in AnyProfileResponses :
            LET w == getProfiles(World, loadOAuthTokens(World)[1].accessToken, response)
            IN  /\ w.selected = selectedFile
                /\ (response.ok /\ selectedFile # None
                    /\ HasProfile(w.ret[1], selectedFile[1].uuid)) =>
                      /\ w.profiles = w.ret
                      /\ select(w, w.ret[1]).ret = selectedFile
                      /\ select(w, w.ret[1]).selected = selectedFile

\* a selection outlived a fetch that changed the cached set: it was made in
\* this run, its profile now has another display name in the cache, and
\* select returns it
C17_Witness ==
    /\ pc = "idle"
    /\ selectedFile # None
    /\ selectedFile[1].username = "Steve"
    /\ selectedFile[1].selectedAt = NowSec(World)
    /\ profileFile # None
    /\ HasProfile(profileFile[1], "u1")
    /\ \E i \in 1..Len(profileFile[1].profiles) :
          profileFile[1].profiles[i] = Steven
    /\ select(World, profileFile[1]).ret = selectedFile

\* no other process has made a save
Alone(p) == \A q \in Procs \ {p} : proc[q].pc = "idle"

\* C18: for each of the four kinds of record, a value saved and then loaded
\* comes back with the same fields, and a load finds no value, not an error,
\* when the file does not exist.
C18_SaveLoadRoundTrip ==
    /\ \A kind \in Kinds : disk[kind] = None => Load(kind, disk[kind]) = None
    /\ \A p \in Procs :
          (proc[p].pc = "done" /\ Alone(p)) =>
              Load(proc[p].kind, disk[proc[p].kind]) = proc[p].value

\* C19: when a process is stopped at any point of a save (between mkdir,
\* writeFile and chmod), the file holds afterwards the whole value it held
\* before the save or the whole new value, never a part of a value.
C19_StoppedSaveIsAllOrNothing ==
    \A p \in Procs :
        (proc[p].pc = "stopped" /\ Alone(p)) =>
            disk[proc[p].kind] \in
                {proc[p].prev, Some(Stringify(proc[p].kind, proc[p].value[1]))}

\* C20: when two saves of the same record overlap, the record is, after both
\* have returned, the whole value of the save that wrote last, never a mixture
\* of the two values.
C20_LastWriterWins ==
    \A kind \in Kinds :
        (\A p \in Procs : proc[p].pc = "done" /\ proc[p].kind = kind) =>
            /\ lastWriter[kind] \in Procs
            /\ disk[kind] = Some(Stringify(kind, proc[lastWriter[kind]].value[1]))

\* the calls of session refresh in the trace of w
SessionRefreshCalls(w) == {i \in 1..Len(w.trace) : w.trace[i].op = "refresh"}

\* C22: a refresh pass that finds no OAuth credential ends without a call of
\* session refresh and with the stored session credential as it was, and
\* every call of session refresh in any pass comes after an OAuth refresh
\* that succeeded on a stored credential.
C22_NoSessionRefreshWithoutOAuth ==
    pc = "idle" =>
        \A w \in RunRefresh(World) :
            /\ loadOAuthTokens(World) = None =>
                  /\ SessionRefreshCalls(w) = {}
                  /\ w.session = sessionFile
                  /\ w.err = "exit 1"
            /\ \A i \in SessionRefreshCalls(w) :
                  /\ loadOAuthTokens(World) # None
                  /\ i > 1
                  /\ w.trace[1].op = "refreshToken"
                  /\ w.trace[1].res = "ok"

\* a session credential is stored, no OAuth credential can be loaded, and the
\* refresh command ends at once
C22_Witness ==
    /\ pc = "idle"
    /\ sessionFile # None
    /\ loadOAuthTokens(World) = None
    /\ \E w \in RunRefresh(World) : w.trace = <<>> /\ w.err = "exit 1"

\* the calls in the trace of w that threw
Thrown(w) == {i \in 1..Len(w.trace) : w.trace[i].res = "throw"}

\* C23: in refresh and session a call that throws is the last call of the
\* command and the command ends with its error; in login an error answer
\* that is not a retry ends the polling with an error; and when the OAuth
\* refresh of the refresh command fails, no other call follows and the stored
\* OAuth and session credentials are as they were.
C23_ErrorsEndTheCommand ==
    /\ pc = "idle" =>
          \A w \in RunRefresh(World) \cup RunSession(World) :
              \A i \in Thrown(w) : i = Len(w.trace) /\ w.err # ""
    /\ pc = "idle" =>
          \A w \in RunRefresh(World) :
              (Len(w.trace) > 0 /\ w.trace[1].op = "refreshToken"
               /\ w.trace[1].res = "throw") =>
                  /\ Len(w.trace) = 1
                  /\ w.err \in {"Token refresh failed",
                                "No access token in refresh response"}
                  /\ w.oauth = oauthFile
                  /\ w.session = sessionFile
    /\ pc = "idle" =>
          \A data \in DeviceCodeResponses :
              LET w == requestDeviceCode(World, data) IN
              Thrown(w) # {} => w.err # "" /\ w.ret = None
    /\ pc = "polling" =>
          \A data \in TokenResponses :
              LET r == pollRequest(Slept(World, interval), device, interval, data)
              IN  Thrown(r.w) # {} => r.next = "throw" /\ r.w.err # ""

\* both credentials are stored and the OAuth refresh of the refresh command
\* is refused
C23_Witness ==
    /\ pc = "idle"
    /\ sessionFile # None
    /\ \E w \in RunRefresh(World) :
          /\ w.trace = <<Event("refreshToken", "", "throw", FALSE)>>
          /\ w.err = "Token refresh failed"
          /\ w.session = sessionFile

\* one of the three fields of a session response is absent or empty
MissingTokens(data) ==
    ~(Truthy(data.sessionToken) /\ Truthy(data.identityToken)
      /\ Truthy(data.expiresAt))

\* C24: session create throws "Failed to create session" when the response
\* carries an error, and "Invalid session response: missing tokens" when it
\* carries none and lacks the session token, the identity token or the
\* expiry; in both cases the stored session credential is as it was.
C24_CreateFailsWithoutWriting ==
    \A response \in SessionResponses :
        response.body # None =>
            LET data == response.body[1]
                w == create(World, "u1", "a1", response)
            IN  /\ Truthy(data.error) =>
                      /\ w.err = "Failed to create session"
                      /\ w.ret = None
                      /\ w.session = sessionFile
                /\ (~Truthy(data.error) /\ MissingTokens(data)) =>
                      /\ w.err = "Invalid session response: missing tokens"
                      /\ w.ret = None
                      /\ w.session = sessionFile

\* with a session credential stored, the session command ends in each of the
\* two errors and leaves the credential
C24_Witness ==
    /\ pc = "idle"
    /\ sessionFile # None
    /\ \E w \in RunSession(World) :
          w.err = "Failed to create session" /\ w.session = sessionFile
    /\ \E w \in RunSession(World) :
          /\ w.err = "Invalid session response: missing tokens"
          /\ w.session = sessionFile

\* C25: session create and session refresh that are given an expiry string
\* Date.parse cannot read succeed and store now + 3600 as the expiry epoch;
\* given a string it can read, they store the instant in whole seconds (3800
\* for one hour, three minutes and 20.5 seconds after the epoch).
C25_ExpiryEpochFromString ==
    \A response \in SessionResponses :
        (response.ok /\ response.body # None
         /\ ~Truthy(response.body[1].error)
         /\ ~MissingTokens(response.body[1])) =>
            \A w \in {create(World, "u1", "a1", response),
                      refresh(World, "s1", response)} :
                /\ w.err = ""
                /\ w.ret # None
                /\ w.session = w.ret
                /\ w.ret[1].expiresAt = "in one hour" =>
                      w.ret[1].expiresEpoch = nowMs \div 1000 + 3600
                /\ w.ret[1].expiresAt = "1970-01-01T01:03:20.500Z" =>
                      w.ret[1].expiresEpoch = 3800
                /\ w.ret[1].expiresAt \in {"in one hour", "1970-01-01T01:03:20.500Z"}

\* a session credential whose expiry string could not be read is stored with
\* an epoch of one hour after its creation, and a refresh whose answer can
\* be read replaces it
C25_Witness ==
    /\ pc = "idle"
    /\ sessionFile # None
    /\ sessionFile[1].expiresAt = "in one hour"
    /\ sessionFile[1].expiresEpoch = sessionFile[1].createdAt + 3600
    /\ \E w \in RunRefresh(World) :
          /\ w.session # None
          /\ w.session[1].expiresAt = "1970-01-01T01:03:20.500Z"
          /\ w.session[1].expiresEpoch = 3800

\* C26: after a session refresh that succeeded the stored record is the one
\* returned: its session token, identity token and expiry string are those
\* of the response, its expiry epoch is derived from that string and its
\* creation instant is the time of the refresh; it has no other field.
C26_RefreshReplacesWholesale ==
    (pc = "idle" /\ sessionFile # None) =>
        \A response \in SessionResponses :
            LET w == refresh(World, sessionFile[1].sessionToken, response) IN
            w.ret # None =>
                LET data == response.body[1]
                    rec == w.session[1]
                IN  /\ w.session = w.ret
                    /\ DOMAIN rec = {"sessionToken", "identityToken", "expiresAt",
                                     "expiresEpoch", "createdAt"}
                    /\ rec.sessionToken = data.sessionToken[1]
                    /\ rec.identityToken = data.identityToken[1]
                    /\ rec.expiresAt = data.expiresAt[1]
                    /\ rec.expiresEpoch \in {3800, nowMs \div 1000 + 3600}
                    /\ rec.createdAt = nowMs \div 1000

\* the refresh command refreshes a session that was created earlier: every
\* field of the stored record changes
C26_Witness ==
    /\ pc = "idle"
    /\ sessionFile # None
    /\ \E w \in RunRefresh(World) :
          /\ \E i \in SessionRefreshCalls(w) : w.trace[i].res = "ok"
          /\ w.session[1].sessionToken # sessionFile[1].sessionToken
          /\ w.session[1].identityToken # sessionFile[1].identityToken
          /\ w.session[1].expiresAt # sessionFile[1].expiresAt
          /\ w.session[1].expiresEpoch # sessionFile[1].expiresEpoch
          /\ w.session[1].createdAt # sessionFile[1].createdAt

\* the records of w other than those named in kinds are those of the files
OthersKept(w, kinds) ==
    /\ "oauth" \in kinds \/ w.oauth = oauthFile
    /\ "session" \in kinds \/ w.session = sessionFile
    /\ "profiles" \in kinds \/ w.profiles = profileFile
    /\ "selected" \in kinds \/ w.selected = selectedFile

\* C30: refreshToken and the completion of the device-code grant change no
\* record but the OAuth one, session create and session refresh none but the
\* session one, getProfiles none but the profile cache, and select and
\* setSelection none but the selected profile.
C30_EachOperationWritesItsOwnRecord ==
    /\ \A data \in RefreshResponses :
          OthersKept(refreshToken(World, "r1", data), {"oauth"})
    /\ \A data \in TokenResponses :
          OthersKept(pollRequest(World, device, interval, data).w, {"oauth"})
    /\ \A response \in SessionResponses :
          /\ OthersKept(create(World, "u1", "a1", response), {"session"})
          /\ OthersKept(refresh(World, "s1", response), {"session"})
    /\ \A response \in ProfileResponses :
          OthersKept(getProfiles(World, "a1", response), {"profiles"})
    /\ profileFile # None =>
          /\ OthersKept(select(World, profileFile[1]), {"selected"})
          /\ \A selector \in Selectors :
                OthersKept(setSelection(World, profileFile[1], selector),
                           {"selected"})

\* the four records exist, and a pass of the refresh command replaces the
\* OAuth record and the session record and leaves the other two
C30_Witness ==
    /\ pc = "idle"
    /\ oauthFile # None /\ sessionFile # None
    /\ profileFile # None /\ selectedFile # None
    /\ \E w \in RunRefresh(World) :
          /\ w.err = ""
          /\ w.oauth # oauthFile
          /\ w.session # sessionFile
          /\ w.profiles = profileFile
          /\ w.selected = selectedFile

\* C27: terminate returns normally to its caller whatever becomes of the
\* DELETE request, also when it cannot be sent.
C27_TerminateNeverThrows ==
    (pc = "idle" /\ sessionFile # None) =>
        \A response \in TerminateResponses :
            terminate(World, sessionFile[1].sessionToken, response).err = ""

\* C28: after terminate has completed, no session credential can be loaded
\* from the store.
C28_TerminateDestroysSession ==
    (pc = "idle" /\ sessionFile # None) =>
        \A response \in TerminateResponses :
            LET w == terminate(World, sessionFile[1].sessionToken, response) IN
            w.err = "" => loadSessionTokens(w) = None

OAuthDue ==
    /\ loadOAuthTokens(World) # None
    /\ nowMs \div 1000 >= loadOAuthTokens(World)[1].expiresAt - 300

\* the world of the cadence tick that follows, d milliseconds later, a cycle
\* that wrote nothing
LaterTick(d) == [World EXCEPT !.nowMs = @ + d]

\* C21: whenever the stored OAuth credential is due, a cycle of the
\* background refresh starts with the OAuth refresh and ends without an
\* error leaving it; when the refresh is refused, it is the only call of the
\* cycle, both stored credentials are as they were, and the cycle of the next
\* tick starts with the OAuth refresh again.
C21_FailedRefreshEndsOnlyTheCycle ==
    (pc = "idle" /\ OAuthDue) =>
        \A data \in RefreshResponses :
            \A w \in cycle(World, data) :
                /\ w.err = ""
                /\ Len(w.trace) > 0
                /\ w.trace[1].op = "refreshToken"
                /\ RefreshRefused(data) =>
                      /\ w.trace = <<Event("refreshToken", "", "throw", FALSE)>>
                      /\ w.oauth = oauthFile
                      /\ w.session = sessionFile
                      /\ \A d \in TickStepsMs :
                            \A w2 \in RunCycle(LaterTick(d)) :
                                /\ w2.err = ""
                                /\ Len(w2.trace) > 0
                                /\ w2.trace[1].op = "refreshToken"

\* the OAuth credential is due, the stored session is expiring, and a cycle
\* ends at the refused OAuth refresh
C21_Witness ==
    /\ pc = "idle"
    /\ OAuthDue
    /\ sessionFile # None
    /\ isExpiring(World, sessionFile[1].expiresEpoch)
    /\ \E data \in RefreshResponses :
          /\ RefreshRefused(data)
          /\ \E w \in cycle(World, data) :
                /\ w.trace = <<Event("refreshToken", "", "throw", FALSE)>>
                /\ w.err = ""
                /\ w.session = sessionFile

\* C31: once a save has returned, the file it wrote has mode 0o600 (384) and
\* the token directory has mode 0o700 (448), whatever modes they had before.
C31_ModesAfterSave ==
    \A p \in Procs :
        proc[p].pc = "done" =>
            /\ fileMode[proc[p].kind] = 384
            /\ dirMode = 448

\* C32: pollForToken always terminates, whatever the device-code state and
\* the answers of the server: every round of its loop that does not end it
\* brings elapsed nearer to the end of the validity window, so that no
\* sequence of answers keeps the loop going for ever.
C32_EveryRoundAdvances ==
    [][(pc = "polling" /\ pc' = "polling") => elapsed' > elapsed]_vars

\* every refresh has finished, and the server has rotated the refresh token
\* at least once
RefreshesFinished ==
    /\ pc = "idle"
    /\ issued > 0
    /\ \A p \in Procs : ~InFlight(p)

\* the refresh token of the stored OAuth record
StoredRefreshToken == IF oauthFile = None THEN "" ELSE oauthFile[1].refresh_token

\* C33: once all refreshes have finished, the stored refresh token is the one
\* the rotating server issued last, whether the refreshes ran one after
\* another or overlapped.
C33_StoredTokenIsLatest ==
    RefreshesFinished => StoredRefreshToken = Rotated(issued)

\* C33, for refreshes run one after another: once they have all finished,
\* the stored refresh token is the one the rotating server issued last.
C33_StoredTokenIsLatestInSequence ==
    (RefreshesFinished /\ ~raced) => StoredRefreshToken = Rotated(issued)

\* two refreshes have run one after another and the second token the server
\* issued is in the store
C33_Witness ==
    /\ RefreshesFinished
    /\ ~raced
    /\ issued = 2
    /\ StoredRefreshToken = "t2"

\* C34: whenever a session credential and a selected profile are both
\* stored, the session was made for that profile: the profile identifier
\* export prints beside the session token is the one the session was made
\* for.
C34_ExportPairsSessionWithItsProfile ==
    (pc = "idle" /\ export(World).ret # None
     /\ sessionFile # None /\ selectedFile # None) =>
        /\ export(World).ret[1].HYTALE_SERVER_SESSION_TOKEN
              = sessionFile[1].sessionToken
        /\ export(World).ret[1].PROFILE_UUID = sessionOwner

\* the mods listed in the manifest whose file is in the mods directory
Installed ==
    {loadManifest[i] : i \in {j \in 1..Len(loadManifest) :
                                 loadManifest[j].fileName \in modFiles}}

\* a run of syncMods in which answer i fails the sync of entry i
FailsAt(modEntries, answers, i) ==
    syncMod(modFiles, modEntries[i], loadManifest, answers[i]).err # ""

\* C35: when the sync of one mod fails in syncMods, the mods after it are
\* still synced, and the failed mod is as it was: its installed file is
\* still in the mods directory and the manifest written at the end still
\* lists it.
C35_FailedModIsLeftAsItWas ==
    \A modEntries \in ModConfigs : \A answers \in AnswersFor(modEntries) :
        LET r == syncMods(modEntries, answers) IN
        \A i \in 1..Len(modEntries) :
            FailsAt(modEntries, answers, i) =>
                /\ \A j \in 1..Len(modEntries) :
                      (j # i /\ ~FailsAt(modEntries, answers, j)) =>
                          FindMod(r.manifest[1], modEntries[j].projectId) # None
                /\ \A m \in Installed :
                      m.projectId = modEntries[i].projectId =>
                          /\ m.fileName \in r.files
                          /\ FindMod(r.manifest[1], m.projectId) = Some(m)

\* C36: after syncMods, for every configuration, the file of a mod that the
\* manifest listed and the configuration no longer lists is not in the mods
\* directory, and the manifest does not list the mod.
C36_RemovedModsAreCleaned ==
    \A modEntries \in ModConfigs : \A answers \in AnswersFor(modEntries) :
        LET r == syncMods(modEntries, answers) IN
        \A i \in 1..Len(loadManifest) :
            (\A j \in 1..Len(modEntries) :
                 modEntries[j].projectId # loadManifest[i].projectId) =>
                /\ loadManifest[i].fileName \notin r.files
                /\ r.manifest # None
                /\ FindMod(r.manifest[1], loadManifest[i].projectId) = None

\* C37: sendCommand returns exactly the lines the server produced between
\* the write of the command and the end of the wait, in their order, however
\* the readers of the output ran meanwhile.
C37_ReturnsExactlyTheOutput ==
    cmd.pc = "returned" =>
        cmd.ret[1] = [i \in 1..(cmd.until - cmd.written) |-> cmd.written + i]

====
